---- MODULE Spec2Model ----
(***************************************************************************)
(* Falling-sand cellular automaton (hakolao/compute_shader_tutorial).      *)
(*                                                                         *)
(* The model covers the matter codec (matter.rs, utils.rs), the simulator  *)
(* object CASimulator (ca_simulator.rs) and the compute queue it submits   *)
(* its passes to.  The GLSL compute shaders (compute_shaders/*.glsl) are   *)
(* not part of the source tree that is modelled; the five passes are       *)
(* written from the design document and are marked as such below.          *)
(*                                                                         *)
(* Conventions                                                             *)
(*   - a 32-bit value is the pair <<hi, lo>> of its 16-bit halves, the     *)
(*     value hi * 2^16 + lo (TLC's integers are 32-bit signed);    *)
(*   - a position is a pair <<x, y>>; "down" is y-1 (tests::sandfall);     *)
(*   - a radius is stored in half units: draw_radius = 2 * radius;         *)
(*   - the random number p in [0,1) of gen_variate_color_rgba_u8 is the    *)
(*     rational jitter / JitterResolution; float rounding is not modelled; *)
(*   - Option<T> is <<"None">> or <<"Some", v>>.                           *)
(***************************************************************************)
EXTENDS Integers, Naturals, Sequences, FiniteSets, TLC

(***************************************************************************)
(* Bounds of the model                                                     *)
(***************************************************************************)
\* grid width in cells (CANVAS_SIZE_X of main.rs, scaled down)
GridW == 2
\* grid height in cells (CANVAS_SIZE_Y of main.rs, scaled down)
GridH == 2
\* host calls (draw_matter, query_matter, step) in one behaviour
MaxCalls == 2
\* largest move_steps argument handed to step
MaxMoveSteps == 1
\* command buffers submitted to the compute queue and not yet finished
MaxQueue == 1
\* p of gen_variate_color_rgba_u8 ranges over k / JitterResolution
JitterResolution == 1000
\* largest canvas width and height construction is tried with
MaxCanvas == 4
\* largest work group width and height construction is tried with
MaxLocal == 2
\* grains of Sand dropped in the stacking scenario
MaxGrains == 2
\* calls of step in the stacking scenario
MaxTicks == 3
\* frames of the application
MaxFrames == 3
\* largest move_steps argument of step in the scenarios on pass order
MaxSubsteps == 2
\* host calls in the scenarios on pass order
MaxClockCalls == 2
\* movement passes run worker by worker in the scenario on worker order
MaxWorkerPasses == 2
\* canvas width in cells in the scenario on contested cells
ContestW == 3
\* canvas height in cells in the scenario on contested cells
ContestH == 2
\* largest radius CAPipeline::draw_matter is called with, in half units
MaxRadius2 == 3

(***************************************************************************)
(* Program constants (main.rs)                                             *)
(***************************************************************************)
CANVAS_SIZE_X == GridW
CANVAS_SIZE_Y == GridH
LOCAL_SIZE_X == 1
LOCAL_SIZE_Y == 1
\* CANVAS_SIZE / LOCAL_SIZE in u32: the quotient, rounded down
num_work_groups(canvas_size, local_size) == canvas_size \div local_size
NUM_WORK_GROUPS_X == num_work_groups(CANVAS_SIZE_X, LOCAL_SIZE_X)
NUM_WORK_GROUPS_Y == num_work_groups(CANVAS_SIZE_Y, LOCAL_SIZE_Y)
GREY_SCALE == TRUE
\* 0xffffffff when GREY_SCALE, 0x0 otherwise
EMPTY_COLOR == IF GREY_SCALE THEN <<65535, 65535>> ELSE <<0, 0>>

(***************************************************************************)
(* matter.rs: MatterId                                                     *)
(***************************************************************************)
Empty == 0
Sand == 1
Wood == 2
MatterId == {Empty, Sand, Wood}

None == <<"None">>
Some(v) == <<"Some", v>>

(***************************************************************************)
(* utils.rs: colour packing                                                *)
(***************************************************************************)
\* num & 255, (num >> 8) & 255, (num >> 16) & 255, (num >> 24) & 255
u32_rgba_to_u8_rgba(num) ==
    LET a == num[2] % 256
        b == (num[2] \div 256) % 256
        g == num[1] % 256
        r == (num[1] \div 256) % 256
    IN  <<r, g, b, a>>

\* mutant: the arguments are packed in reverse order (a in the high byte)
u8_rgba_to_u32_rgba_reversed(r, g, b, a) ==
    <<((a % 256) * 256) + b, (g * 256) + r>>

\* (r << 24) | (g << 16) | (b << 8) | (a & 255): the operands have disjoint
\* bits, so | is +
u8_rgba_to_u32_rgba(r, g, b, a) ==
    <<(r * 256) + g, (b * 256) + (a % 256)>>

\* mutant: the weights are rounded to two decimals, 0.30, 0.59 and 0.12
grey_channels_rounded_weights(color) ==
    LET c == u32_rgba_to_u8_rgba(color)
    IN  <<(30 * c[1]) \div 100, (59 * c[2]) \div 100, (12 * c[3]) \div 100>>

\* (0.299 * color[0] as f32) as u8, (0.587 * color[1] as f32) as u8 and
\* (0.114 * color[2] as f32) as u8: the cast truncates
grey_channels(color) ==
    LET c == u32_rgba_to_u8_rgba(color)
    IN  <<(299 * c[1]) \div 1000, (587 * c[2]) \div 1000, (114 * c[3]) \div 1000>>

\* the u8 sum r + g + b wraps at 256 in a release build
grey_scale_u32(color) ==
    LET r == grey_channels(color)[1]
        g == grey_channels(color)[2]
        b == grey_channels(color)[3]
        y == (r + g + b) % 256
    IN  u8_rgba_to_u32_rgba(y, y, y, 255)

(***************************************************************************)
(* matter.rs: colours of a matter and the packed cell MatterWithColor      *)
(***************************************************************************)
\* Sand is 0xc2b280ff, Wood is 0xba8c63ff
color_rgba_u8(matter_id) ==
    LET color == CASE matter_id = Empty -> EMPTY_COLOR
                   [] matter_id = Sand -> <<49842, 33023>>
                   [] OTHER -> <<47756, 25599>>
    IN  IF GREY_SCALE
        THEN u32_rgba_to_u8_rgba(grey_scale_u32(color))
        ELSE u32_rgba_to_u8_rgba(color)

\* ((c/255 + variation).clamp(0.0, 1.0) * 255.0) as u8 with
\* variation = -0.1 + 0.2 * p and p = jitter / JitterResolution
variate_channel(c, jitter) ==
    LET den == 10 * JitterResolution
        num == (den * c) + (255 * ((2 * jitter) - JitterResolution))
    IN  IF num <= 0 THEN 0
        ELSE IF num >= 255 * den THEN 255
        ELSE num \div den

gen_variate_color_rgba_u8(matter_id, jitter) ==
    LET color == color_rgba_u8(matter_id)
    IN  <<variate_channel(color[1], jitter),
          variate_channel(color[2], jitter),
          variate_channel(color[3], jitter),
          255>>

\* mutant: the jitter is applied to every matter, Empty included
MatterWithColor_new_always_variate(matter_id, jitter) ==
    LET color == gen_variate_color_rgba_u8(matter_id, jitter)
    IN  u8_rgba_to_u32_rgba(color[1], color[2], color[3], matter_id)

\* MatterWithColor::new(matter_id).value
MatterWithColor_new(matter_id, jitter) ==
    LET color == IF matter_id # Empty
                 THEN gen_variate_color_rgba_u8(matter_id, jitter)
                 ELSE color_rgba_u8(matter_id)
    IN  u8_rgba_to_u32_rgba(color[1], color[2], color[3], matter_id)

\* MatterWithColor::matter_id: (value & 255) as u8, then From<u8> (a transmute,
\* which keeps the byte; a byte outside MatterId stays what it is)
matter_id(value) == value[2] % 256

\* MatterWithColor::from(0).value
MatterWithColor_from_0 == <<0, 0>>

\* every jitter the codec is checked with
Jitters == 0 .. (JitterResolution - 1)
\* the jitter draw_matter is called with
DrawJitters == {0}

(***************************************************************************)
(* State                                                                   *)
(***************************************************************************)
VARIABLES
    \* device memory: the two grid buffers allocated by device_grid, by id 0, 1
    buffers,
    \* CASimulator.matter_in, matter_out: which buffer each handle refers to
    matter_in,
    matter_out,
    \* CASimulator.query_matter: the one-element CPU-accessible result buffer
    query_matter,
    \* CASimulator.image: the colour image, one 24-bit rgb value per cell
    image,
    \* CASimulator.image: the handle itself, i.e. which device allocation the
    \* view refers to, by id
    image_view,
    \* CASimulator.sim_step, move_step
    sim_step,
    move_step,
    \* CASimulator.draw_radius (in half units), draw_matter (the packed value),
    \* draw_pos_start, draw_pos_end, query_pos
    draw_radius,
    draw_matter,
    draw_pos_start,
    draw_pos_end,
    query_pos,
    \* the compute queue: the command buffers submitted and not yet finished,
    \* oldest first, each the sequence of its passes that have not run yet
    queue,
    \* history: the last host call: its name, arguments and return value, the
    \* pipelines of the passes it submitted, the number of passes that were in
    \* the queue when it was made, and, for a query_matter or step call or a
    \* movement pass, the front buffer as it was (or was to be, once that queue
    \* had run) before it
    last_call,
    \* history: number of host calls so far
    calls,
    \* the codec under test: [matter, jitter, value, decoded]
    codec,
    \* the configuration under test: the canvas and work group sizes new is
    \* built with, how construction ended and the work groups then dispatched
    config,
    \* history: the host calls of a scenario, oldest first, each [op, args]
    trace,
    \* the CAPipeline object under test (ca_pipeline.rs): its canvas size, its
    \* matter_in buffer, and the draw_matter call made on it
    ca_pipeline,
    \* the application (main.rs): whether the process runs or has panicked, the
    \* backend call that failed last, what became of the frame, and whether
    \* an error was logged for it
    app

vars == <<buffers, matter_in, matter_out, query_matter, image, image_view, sim_step,
          move_step, draw_radius, draw_matter, draw_pos_start, draw_pos_end, query_pos,
          queue, last_call, calls, codec, config, trace, ca_pipeline, app>>

\* the variables of the codec, configuration and scenario under test
aux_vars == <<codec, config, trace, ca_pipeline, app>>

sim_vars == <<buffers, matter_in, matter_out, query_matter, image, image_view, sim_step,
              move_step, draw_radius, draw_matter, draw_pos_start, draw_pos_end, query_pos,
              queue, last_call, calls>>

(***************************************************************************)
(* Grid geometry                                                           *)
(***************************************************************************)
Positions == (0 .. (CANVAS_SIZE_X - 1)) \X (0 .. (CANVAS_SIZE_Y - 1))
Indices == 0 .. ((CANVAS_SIZE_X * CANVAS_SIZE_Y) - 1)

\* mutant: the upper bounds are inclusive
is_inside_inclusive(pos) ==
    pos[1] >= 0 /\ pos[1] <= CANVAS_SIZE_X /\ pos[2] >= 0 /\ pos[2] <= CANVAS_SIZE_Y

\* CASimulator::is_inside
is_inside(pos) ==
    pos[1] >= 0 /\ pos[1] < CANVAS_SIZE_X /\ pos[2] >= 0 /\ pos[2] < CANVAS_SIZE_Y

\* shader side: row-major index of a cell
get_index(pos) == (pos[2] * CANVAS_SIZE_X) + pos[1]

\* shader side: the cell a worker is run for (its global invocation id)
get_current_sim_pos(i) == <<i % CANVAS_SIZE_X, i \div CANVAS_SIZE_X>>

\* the values a fresh, never written device allocation is observed to hold:
\* zeroed memory
\* (0x00000000), and stale bytes (0xdeadbe07) whose low byte is no matter id
UninitValues == {<<0, 0>>, <<57005, 48647>>}

(***************************************************************************)
(* The compute passes (compute_shaders/*.glsl), written from the design    *)
(* document: each pass is a map over all cells that reads the buffer bound *)
(* as input (binding 0) and the push constants recorded with the dispatch. *)
(***************************************************************************)
is_empty(value) == matter_id(value) = Empty

\* shader side: the position is a cell of the canvas
is_inside_sim_canvas(pos) ==
    pos[1] >= 0 /\ pos[1] < CANVAS_SIZE_X /\ pos[2] >= 0 /\ pos[2] < CANVAS_SIZE_Y

Cell(grid, pos) == grid[get_index(pos)]

UP(pos) == <<pos[1], pos[2] + 1>>
DOWN(pos) == <<pos[1], pos[2] - 1>>

\* the cell at pos is not Empty and the cell directly below it is inside and Empty
falls(grid, pos) ==
    /\ is_inside_sim_canvas(pos)
    /\ ~is_empty(Cell(grid, pos))
    /\ is_inside_sim_canvas(DOWN(pos))
    /\ is_empty(Cell(grid, DOWN(pos)))

\* fall: every cell that falls trades places with the Empty cell below it
fall_empty(grid) ==
    [i \in Indices |->
        LET pos == get_current_sim_pos(i)
        IN  IF falls(grid, UP(pos)) THEN Cell(grid, UP(pos))
            ELSE IF falls(grid, pos) THEN Cell(grid, DOWN(pos))
            ELSE grid[i]]

\* the side a slide pass moves to: left (-1) on an even move_step, right (+1) on odd
slide_dir(pc) == IF pc.move_step % 2 = 0 THEN -1 ELSE 1

\* the cell at pos is not Empty, the cell below it is occupied and the diagonal
\* cell below on side dir is inside and Empty
slides(grid, pos, dir) ==
    /\ is_inside_sim_canvas(pos)
    /\ ~is_empty(Cell(grid, pos))
    /\ is_inside_sim_canvas(DOWN(pos))
    /\ ~is_empty(Cell(grid, DOWN(pos)))
    /\ is_inside_sim_canvas(<<pos[1] + dir, pos[2] - 1>>)
    /\ is_empty(Cell(grid, <<pos[1] + dir, pos[2] - 1>>))

\* slide: every cell that slides trades places with the Empty diagonal cell
slide_down_empty(grid, pc) ==
    LET dir == slide_dir(pc)
    IN  [i \in Indices |->
            LET pos == get_current_sim_pos(i)
                from == <<pos[1] - dir, pos[2] + 1>>
                to == <<pos[1] + dir, pos[2] - 1>>
            IN  IF slides(grid, from, dir) THEN Cell(grid, from)
                ELSE IF slides(grid, pos, dir) THEN Cell(grid, to)
                ELSE grid[i]]

\* color: the rgb of every cell of the input buffer
color(grid) == [i \in Indices |-> (grid[i][1] * 256) + (grid[i][2] \div 256)]

\* round(distance(a, b)) <= radius, radius = r2 / 2:
\* round(d) <= floor(radius)  <=>  d < floor(radius) + 1/2
within_radius(a, b, r2) ==
    LET dx == a[1] - b[1]
        dy == a[2] - b[2]
        m == r2 \div 2
    IN  4 * ((dx * dx) + (dy * dy)) < ((2 * m) + 1) * ((2 * m) + 1)

\* the positions of the stroke from draw_pos_start to draw_pos_end: the calls
\* modelled have start = end
stroke(pc) == {pc.draw_pos_start, pc.draw_pos_end}

\* draw_matter: stamps draw_matter on every cell within the radius of the stroke
draw_matter_cs(grid, pc) ==
    [i \in Indices |->
        LET pos == get_current_sim_pos(i)
        IN  IF \E s \in stroke(pc) : within_radius(pos, s, pc.draw_radius)
            THEN pc.draw_matter
            ELSE grid[i]]

\* query_matter: copies the cell at query_pos to the result buffer
\* (a read past the end of the buffer yields 0)
query_matter_cs(grid, pc) ==
    IF get_index(pc.query_pos) \in Indices THEN Cell(grid, pc.query_pos) ELSE <<0, 0>>

(***************************************************************************)
(* The device: executing one recorded pass on the device state             *)
(*   g = [buffers, image, query_matter]                                    *)
(*   pass = [pipeline, in, out, pc]                                        *)
(***************************************************************************)
ExecPass(g, pass) ==
    LET grid == g.buffers[pass.in]
    IN  CASE pass.pipeline = "fall" ->
               [g EXCEPT !.buffers[pass.out] = fall_empty(grid)]
          [] pass.pipeline = "slide" ->
               [g EXCEPT !.buffers[pass.out] = slide_down_empty(grid, pass.pc)]
          [] pass.pipeline = "color" ->
               [g EXCEPT !.image = color(grid)]
          [] pass.pipeline = "draw_matter" ->
               [g EXCEPT !.buffers[pass.in] = draw_matter_cs(grid, pass.pc)]
          [] pass.pipeline = "query_matter" ->
               [g EXCEPT !.query_matter = query_matter_cs(grid, pass.pc)]

\* a pass has written all its cells before the next one starts: the value v,
\* computed in full once rather than cell by cell at every later read
completed(v) == IF v = v THEN v ELSE v

\* the passes of a command buffer run in the order they were recorded
RECURSIVE RunPasses(_, _)
RunPasses(g, cb) ==
    IF cb = <<>> THEN g ELSE RunPasses(completed(ExecPass(g, Head(cb))), Tail(cb))

\* the command buffers of a queue run in submission order
RECURSIVE RunAll(_, _)
RunAll(g, q) ==
    IF q = <<>> THEN g ELSE RunAll(RunPasses(g, Head(q)), Tail(q))

Device == [buffers |-> buffers, image |-> image, query_matter |-> query_matter]

(***************************************************************************)
(* CASimulator (ca_simulator.rs): the host side                            *)
(*   self = the fields of the simulator a dispatch reads or writes         *)
(*   sb   = [self, builder]: the simulator and the command buffer builder  *)
(***************************************************************************)
Self ==
    [matter_in |-> matter_in, matter_out |-> matter_out,
     sim_step |-> sim_step, move_step |-> move_step,
     draw_radius |-> draw_radius, draw_matter |-> draw_matter,
     draw_pos_start |-> draw_pos_start, draw_pos_end |-> draw_pos_end,
     query_pos |-> query_pos, image |-> image_view]

\* CASimulator::color_image: a clone of the handle
color_image(self) == self.image

\* the push constants built by dispatch
PushConstants(self) ==
    [sim_step |-> self.sim_step, move_step |-> self.move_step,
     draw_pos_start |-> self.draw_pos_start, draw_pos_end |-> self.draw_pos_end,
     draw_radius |-> self.draw_radius, draw_matter |-> self.draw_matter,
     query_pos |-> self.query_pos]

\* mutant: the two grid buffers are bound the other way round
dispatch_bindings_swapped(sb, pipeline, swap) ==
    LET self == sb.self
        pass == [pipeline |-> pipeline, in |-> self.matter_out,
                 out |-> self.matter_in, image |-> self.image,
                 pc |-> PushConstants(self)]
    IN  [self |-> IF swap
                  THEN [self EXCEPT !.matter_in = self.matter_out,
                                    !.matter_out = self.matter_in]
                  ELSE self,
         builder |-> Append(sb.builder, pass)]

\* mutant: the swap also makes the image handle refer to the new input buffer
dispatch_swaps_image(sb, pipeline, swap) ==
    LET self == sb.self
        pass == [pipeline |-> pipeline, in |-> self.matter_in,
                 out |-> self.matter_out, image |-> self.image,
                 pc |-> PushConstants(self)]
    IN  [self |-> IF swap
                  THEN [self EXCEPT !.matter_in = self.matter_out,
                                    !.matter_out = self.matter_in,
                                    !.image = self.matter_out]
                  ELSE self,
         builder |-> Append(sb.builder, pass)]

\* mutant: the input buffer is bound as the output buffer too
dispatch_in_place(sb, pipeline, swap) ==
    LET self == sb.self
        pass == [pipeline |-> pipeline, in |-> self.matter_in,
                 out |-> self.matter_in, image |-> self.image,
                 pc |-> PushConstants(self)]
    IN  [self |-> IF swap
                  THEN [self EXCEPT !.matter_in = self.matter_out,
                                    !.matter_out = self.matter_in]
                  ELSE self,
         builder |-> Append(sb.builder, pass)]

\* mutant: every pass is bound to the buffers as they were at construction
dispatch_bindings_fixed(sb, pipeline, swap) ==
    LET self == sb.self
        pass == [pipeline |-> pipeline, in |-> 0, out |-> 1, image |-> self.image,
                 pc |-> PushConstants(self)]
    IN  [self |-> IF swap
                  THEN [self EXCEPT !.matter_in = self.matter_out,
                                    !.matter_out = self.matter_in]
                  ELSE self,
         builder |-> Append(sb.builder, pass)]

\* CASimulator::dispatch: records the pass with the buffers and the image bound
\* now, then swaps
dispatch(sb, pipeline, swap) ==
    LET self == sb.self
        pass == [pipeline |-> pipeline, in |-> self.matter_in,
                 out |-> self.matter_out, image |-> self.image,
                 pc |-> PushConstants(self)]
    IN  [self |-> IF swap
                  THEN [self EXCEPT !.matter_in = self.matter_out,
                                    !.matter_out = self.matter_in]
                  ELSE self,
         builder |-> Append(sb.builder, pass)]

\* mutant: the movement pass is dispatched without the buffer swap
step_movement_no_swap(sb, pipeline) ==
    LET d == dispatch(sb, pipeline, FALSE)
    IN  [d EXCEPT !.self.move_step = @ + 1]

\* CASimulator::step_movement
step_movement(sb, pipeline) ==
    LET d == dispatch(sb, pipeline, TRUE)
    IN  [d EXCEPT !.self.move_step = @ + 1]

\* for _ in 0..move_steps { fall; slide }
\* mutant: the loop body dispatches slide before fall
RECURSIVE move_loop_slide_first(_, _)
move_loop_slide_first(sb, n) ==
    IF n = 0 THEN sb
    ELSE move_loop_slide_first(step_movement(step_movement(sb, "slide"), "fall"), n - 1)

RECURSIVE move_loop(_, _)
move_loop(sb, n) ==
    IF n = 0 THEN sb
    ELSE move_loop(step_movement(step_movement(sb, "fall"), "slide"), n - 1)

\* mutant: step applies the stored stroke again before the movement passes
step_draws_again(self, move_steps, is_paused) ==
    LET sb0 == dispatch([self |-> self, builder |-> <<>>], "draw_matter", FALSE)
        moved == IF ~is_paused THEN move_loop(sb0, move_steps) ELSE sb0
        colored == dispatch(moved, "color", FALSE)
    IN  [colored EXCEPT !.self.sim_step = @ + 1]

\* mutant: the color pass is dispatched before the movement passes
step_colors_first(self, move_steps, is_paused) ==
    LET colored == dispatch([self |-> self, builder |-> <<>>], "color", FALSE)
        moved == IF ~is_paused THEN move_loop(colored, move_steps) ELSE colored
    IN  [moved EXCEPT !.self.sim_step = @ + 1]

\* mutant: the color pass is dispatched with the buffer swap
step_color_swaps(self, move_steps, is_paused) ==
    LET sb0 == [self |-> self, builder |-> <<>>]
        moved == IF ~is_paused THEN move_loop(sb0, move_steps) ELSE sb0
        colored == dispatch(moved, "color", TRUE)
    IN  [colored EXCEPT !.self.sim_step = @ + 1]

\* mutant: is_paused is ignored, the movement passes always run
step_ignores_pause(self, move_steps, is_paused) ==
    LET moved == move_loop([self |-> self, builder |-> <<>>], move_steps)
        colored == dispatch(moved, "color", FALSE)
    IN  [colored EXCEPT !.self.sim_step = @ + 1]

\* mutant: the color pass is dispatched inside the if !is_paused block
step_color_when_moving(self, move_steps, is_paused) ==
    LET sb0 == [self |-> self, builder |-> <<>>]
        done == IF ~is_paused
                THEN dispatch(move_loop(sb0, move_steps), "color", FALSE)
                ELSE sb0
    IN  [done EXCEPT !.self.sim_step = @ + 1]

\* CASimulator::step, up to execute: the simulator after the call and the
\* command buffer it built
step(self, move_steps, is_paused) ==
    LET sb0 == [self |-> self, builder |-> <<>>]
        moved == IF ~is_paused THEN move_loop(sb0, move_steps) ELSE sb0
        colored == dispatch(moved, "color", FALSE)
    IN  [colored EXCEPT !.self.sim_step = @ + 1]

\* mutant: the fence is never waited for
execute_no_wait(q, g, builder, wait) ==
    [queue |-> Append(q, builder), device |-> g]

\* CASimulator::execute: submits the command buffer; with wait, returns when the
\* fence of this submission has signalled, i.e. when the queue has run it and
\* everything submitted before it
execute(q, g, builder, wait) ==
    IF wait
    THEN [queue |-> <<>>, device |-> RunAll(g, Append(q, builder))]
    ELSE [queue |-> Append(q, builder), device |-> g]

(***************************************************************************)
(* Construction                                                            *)
(***************************************************************************)
\* device_grid: DeviceLocalBuffer::array allocates and writes nothing, so the
\* buffer holds whatever the allocation held
device_grid(stale) == [i \in Indices |-> stale]
\* the id of the allocation made by StorageImage::general_purpose_image_view,
\* the third after the two grid buffers 0 and 1
StorageImageId == 2

\* StorageImage::general_purpose_image_view: allocated, not written
storage_image(stale) == [i \in Indices |-> (stale[1] * 256) + (stale[2] \div 256)]

NoCall ==
    [op |-> "new", args |-> <<>>, ret |-> None, submitted |-> <<>>, pending |-> 0,
     before |-> <<>>]
NoCodec ==
    [phase |-> "off", matter |-> Empty, jitter |-> 0, value |-> <<0, 0>>, decoded |-> 0]
\* no application, CAPipeline or configuration is under test
NoApp == [status |-> "off"]
NoPipeline == [phase |-> "off"]
NoConfig == [phase |-> "off"]

\* mutant: new without the assertion on the height
new_statements_no_assert_y ==
    <<"assert_x", "matter_in", "matter_out", "query_matter", "pipelines", "image">>

\* mutant: new without the two assertions
new_statements_no_asserts ==
    <<"matter_in", "matter_out", "query_matter", "pipelines", "image">>

\* CASimulator::new, statement by statement: the two assertions, then what it
\* allocates and builds
new_statements ==
    <<"assert_x", "assert_y", "matter_in", "matter_out", "query_matter", "pipelines",
      "image">>

\* the statements of new run in order for the sizes of cfg; a failed assert_eq!
\* panics, and what was allocated until then is all that exists
RECURSIVE run_new(_, _, _)
run_new(cfg, statements, allocated) ==
    IF statements = <<>> THEN [result |-> "ok", allocated |-> allocated]
    ELSE LET statement == Head(statements)
         IN  CASE statement = "assert_x" ->
                    IF cfg.width % cfg.local_x = 0
                    THEN run_new(cfg, Tail(statements), allocated)
                    ELSE [result |-> "panic", allocated |-> allocated]
               [] statement = "assert_y" ->
                    IF cfg.height % cfg.local_y = 0
                    THEN run_new(cfg, Tail(statements), allocated)
                    ELSE [result |-> "panic", allocated |-> allocated]
               [] OTHER ->
                    run_new(cfg, Tail(statements), allocated \cup {statement})

\* CASimulator::new
CASimulator_new ==
    /\ CANVAS_SIZE_X % LOCAL_SIZE_X = 0
    /\ CANVAS_SIZE_Y % LOCAL_SIZE_Y = 0
    /\ \E stale \in UninitValues :
        /\ buffers = [b \in {0, 1} |-> device_grid(stale)]
        /\ image = storage_image(stale)
    /\ matter_in = 0
    /\ matter_out = 1
    /\ image_view = StorageImageId
    /\ query_matter = MatterWithColor_from_0
    /\ sim_step = 0
    /\ move_step = 0
    /\ draw_radius = 0
    /\ draw_matter = MatterWithColor_from_0
    /\ draw_pos_start = <<0, 0>>
    /\ draw_pos_end = <<0, 0>>
    /\ query_pos = <<0, 0>>
    /\ queue = <<>>
    /\ last_call = NoCall
    /\ calls = 0

Init ==
    /\ CASimulator_new
    /\ codec = NoCodec
    /\ config = NoConfig
    /\ trace = <<>>
    /\ ca_pipeline = NoPipeline
    /\ app = NoApp

(***************************************************************************)
(* The host calls                                                          *)
(***************************************************************************)
\* the new values of the simulator's fields, of the queue and of the device
Commit(self, e) ==
    /\ matter_in' = self.matter_in
    /\ matter_out' = self.matter_out
    /\ sim_step' = self.sim_step
    /\ move_step' = self.move_step
    /\ draw_radius' = self.draw_radius
    /\ draw_matter' = self.draw_matter
    /\ draw_pos_start' = self.draw_pos_start
    /\ draw_pos_end' = self.draw_pos_end
    /\ query_pos' = self.query_pos
    /\ image_view' = self.image
    /\ queue' = e.queue
    /\ buffers' = e.device.buffers
    /\ image' = e.device.image
    /\ query_matter' = e.device.query_matter

Called(op, args, ret, builder) ==
    /\ last_call' = [op |-> op, args |-> args, ret |-> ret,
                     submitted |-> [i \in 1 .. Len(builder) |-> builder[i].pipeline],
                     pending |-> Len(queue),
                     before |-> IF op = "draw_matter" THEN <<>>
                                ELSE RunAll(Device, queue).buffers[matter_in]]
    /\ calls' = calls + 1

\* CASimulator::query_matter on simulator self, queue q and device g:
\* the simulator, queue and device after the call, and the value returned
\* mutant: query_pos is stored before the position is tested
query_matter_call_sets_pos_first(self, q, g, pos) ==
    LET self1 == [self EXCEPT !.query_pos = pos]
    IN  IF is_inside(pos)
        THEN LET d == dispatch([self |-> self1, builder |-> <<>>], "query_matter", FALSE)
                 e == execute(q, g, d.builder, TRUE)
             IN  [self |-> d.self, e |-> e,
                  ret |-> Some(matter_id(e.device.query_matter)), builder |-> d.builder]
        ELSE [self |-> self1, e |-> [queue |-> q, device |-> g], ret |-> None,
              builder |-> <<>>]

query_matter_call(self, q, g, pos) ==
    IF is_inside(pos)
    THEN LET self1 == [self EXCEPT !.query_pos = pos]
             d == dispatch([self |-> self1, builder |-> <<>>], "query_matter", FALSE)
             e == execute(q, g, d.builder, TRUE)
         IN  [self |-> d.self, e |-> e,
              ret |-> Some(matter_id(e.device.query_matter)), builder |-> d.builder]
    ELSE [self |-> self, e |-> [queue |-> q, device |-> g], ret |-> None,
          builder |-> <<>>]

\* CASimulator::query_matter, whatever the number of calls made so far
query_matter_handler(pos) ==
    /\ LET r == query_matter_call(Self, queue, Device, pos)
       IN  /\ Commit(r.self, r.e)
           /\ Called("query_matter", <<pos>>, r.ret, r.builder)
    /\ UNCHANGED <<codec, config, ca_pipeline>>

CASimulator_query_matter(pos) ==
    /\ calls < MaxCalls
    /\ query_matter_handler(pos)
    /\ UNCHANGED <<trace, app>>

\* CASimulator::draw_matter; jitter is the random number MatterWithColor::new draws
\* mutant: the call also dispatches the color pass
draw_matter_handler_also_colors(start, end, radius, matter, jitter) ==
    /\ Len(queue) < MaxQueue
    /\ LET self1 == [Self EXCEPT !.draw_pos_start = start,
                                 !.draw_pos_end = end,
                                 !.draw_matter = MatterWithColor_new(matter, jitter),
                                 !.draw_radius = radius]
           d == dispatch(dispatch([self |-> self1, builder |-> <<>>], "draw_matter", FALSE),
                         "color", FALSE)
           e == execute(queue, Device, d.builder, FALSE)
       IN  /\ Commit(d.self, e)
           /\ Called("draw_matter", <<start, end, radius, matter>>, None, d.builder)
    /\ UNCHANGED <<codec, config, ca_pipeline>>

\* mutant: the pass is recorded before the fields it reads are updated
draw_matter_handler_stale_constants(start, end, radius, matter, jitter) ==
    /\ Len(queue) < MaxQueue
    /\ LET d == dispatch([self |-> Self, builder |-> <<>>], "draw_matter", FALSE)
           self1 == [d.self EXCEPT !.draw_pos_start = start,
                                   !.draw_pos_end = end,
                                   !.draw_matter = MatterWithColor_new(matter, jitter),
                                   !.draw_radius = radius]
           e == execute(queue, Device, d.builder, FALSE)
       IN  /\ Commit(self1, e)
           /\ Called("draw_matter", <<start, end, radius, matter>>, None, d.builder)
    /\ UNCHANGED <<codec, config, ca_pipeline>>

\* CASimulator::draw_matter, whatever the number of calls made so far
draw_matter_handler(start, end, radius, matter, jitter) ==
    /\ Len(queue) < MaxQueue
    /\ LET self1 == [Self EXCEPT !.draw_pos_start = start,
                                 !.draw_pos_end = end,
                                 !.draw_matter = MatterWithColor_new(matter, jitter),
                                 !.draw_radius = radius]
           d == dispatch([self |-> self1, builder |-> <<>>], "draw_matter", FALSE)
           e == execute(queue, Device, d.builder, FALSE)
       IN  /\ Commit(d.self, e)
           /\ Called("draw_matter", <<start, end, radius, matter>>, None, d.builder)
    /\ UNCHANGED <<codec, config, ca_pipeline>>

CASimulator_draw_matter(start, end, radius, matter, jitter) ==
    /\ calls < MaxCalls
    /\ draw_matter_handler(start, end, radius, matter, jitter)
    /\ UNCHANGED <<trace, app>>

\* CASimulator::step, whatever the number of calls made so far
step_handler(move_steps, is_paused) ==
    /\ LET s == step(Self, move_steps, is_paused)
           e == execute(queue, Device, s.builder, FALSE)
       IN  /\ Len(queue) < MaxQueue
           /\ Commit(s.self, e)
           /\ Called("step", <<move_steps, is_paused>>, None, s.builder)
    /\ UNCHANGED <<codec, config, ca_pipeline>>

CASimulator_step(move_steps, is_paused) ==
    /\ calls < MaxCalls
    /\ step_handler(move_steps, is_paused)
    /\ UNCHANGED <<trace, app>>

\* the compute queue runs the next pass of the oldest command buffer
QueueRun ==
    /\ queue # <<>>
    /\ LET cb == Head(queue)
           g == ExecPass(Device, Head(cb))
       IN  /\ buffers' = g.buffers
           /\ image' = g.image
           /\ query_matter' = g.query_matter
           /\ queue' = IF Len(cb) = 1 THEN Tail(queue)
                       ELSE <<Tail(cb)>> \o Tail(queue)
    /\ UNCHANGED <<matter_in, matter_out, sim_step, move_step, draw_radius, draw_matter,
                   draw_pos_start, draw_pos_end, query_pos, image_view, last_call, calls,
                   aux_vars>>

(***************************************************************************)
(* Inputs                                                                  *)
(***************************************************************************)
\* two opposite corner cells, and one position past each edge
QueryPositions ==
    {<<0, 0>>, <<CANVAS_SIZE_X - 1, CANVAS_SIZE_Y - 1>>,
     <<-1, 0>>, <<CANVAS_SIZE_X, 0>>, <<0, -1>>, <<0, CANVAS_SIZE_Y>>}
\* every cell, and one position outside the canvas
DrawPositions == Positions \cup {<<-1, 0>>}
\* radius 0.5, in half units
DrawRadii == {1}

Next ==
    \/ \E pos \in QueryPositions : CASimulator_query_matter(pos)
    \/ \E pos \in DrawPositions, radius \in DrawRadii, matter \in MatterId,
          jitter \in DrawJitters :
            CASimulator_draw_matter(pos, pos, radius, matter, jitter)
    \/ \E move_steps \in 0 .. MaxMoveSteps, is_paused \in BOOLEAN :
            CASimulator_step(move_steps, is_paused)
    \/ QueueRun

Spec == Init /\ [][Next]_vars

(***************************************************************************)
(* The codec on its own: MatterWithColor::new(matter).matter_id()          *)
(***************************************************************************)
InitCodec ==
    /\ CASimulator_new
    /\ \E m \in MatterId, j \in Jitters :
        codec = [phase |-> "arg", matter |-> m, jitter |-> j,
                 value |-> <<0, 0>>, decoded |-> 0]
    /\ config = NoConfig
    /\ trace = <<>>
    /\ ca_pipeline = NoPipeline
    /\ app = NoApp

CodecNew ==
    /\ codec.phase = "arg"
    /\ codec' = [codec EXCEPT !.phase = "new",
                              !.value = MatterWithColor_new(codec.matter, codec.jitter)]
    /\ UNCHANGED <<sim_vars, config, trace, ca_pipeline, app>>

CodecMatterId ==
    /\ codec.phase = "new"
    /\ codec' = [codec EXCEPT !.phase = "id", !.decoded = matter_id(codec.value)]
    /\ UNCHANGED <<sim_vars, config, trace, ca_pipeline, app>>

NextCodec == CodecNew \/ CodecMatterId

SpecCodec == InitCodec /\ [][NextCodec]_vars

(***************************************************************************)
(* Grey scale on its own: grey_scale_u32 on colours of every combination   *)
(* of the channel values below                                             *)
(***************************************************************************)
\* channel values: the ends of the u8 range, the middle, and the channels of
\* the colours of Sand (0xc2b280) and Wood (0xba8c63)
GreyChannels == {0, 1, 99, 128, 140, 178, 186, 194, 254, 255}

InitGrey ==
    /\ CASimulator_new
    /\ \E r \in GreyChannels, g \in GreyChannels, b \in GreyChannels :
        codec = [phase |-> "color", color |-> u8_rgba_to_u32_rgba(r, g, b, 255),
                 value |-> <<0, 0>>]
    /\ config = NoConfig
    /\ trace = <<>>
    /\ ca_pipeline = NoPipeline
    /\ app = NoApp

GreyScale ==
    /\ codec.phase = "color"
    /\ codec' = [codec EXCEPT !.phase = "grey", !.value = grey_scale_u32(codec.color)]
    /\ UNCHANGED <<sim_vars, config, trace, ca_pipeline, app>>

NextGrey == GreyScale

SpecGrey == InitGrey /\ [][NextGrey]_vars

(***************************************************************************)
(* The movement passes on their own: the loop body of CASimulator::step on *)
(* any grid that draw_matter can have drawn, one pass at a time            *)
(***************************************************************************)
\* the cell values draw_matter writes
DrawnValues == {MatterWithColor_new(matter, jitter) : matter \in MatterId, jitter \in DrawJitters}

\* the simulator after construction and draws that have run: any grid of drawn
\* cells in the front buffer
InitPass ==
    /\ \E grid \in [Indices -> DrawnValues], stale \in UninitValues :
        /\ buffers = [b \in {0, 1} |-> IF b = 0 THEN grid ELSE device_grid(stale)]
        /\ image = storage_image(stale)
        /\ last_call = [NoCall EXCEPT !.op = "draw_matter"]
        \* the last draw was the one of the cell at <<0, 0>>
        /\ draw_matter = grid[0]
    /\ matter_in = 0
    /\ matter_out = 1
    /\ image_view = StorageImageId
    /\ query_matter = MatterWithColor_from_0
    /\ sim_step = 0
    /\ move_step = 0
    /\ draw_radius = 1
    /\ draw_pos_start = <<0, 0>>
    /\ draw_pos_end = <<0, 0>>
    /\ query_pos = <<0, 0>>
    /\ queue = <<>>
    /\ calls = 0
    /\ codec = NoCodec
    /\ config = NoConfig
    /\ trace = <<>>
    /\ ca_pipeline = NoPipeline
    /\ app = NoApp

\* one step_movement of the loop of step, and the device running the pass
MovementPass(pipeline) ==
    /\ move_step < 2 * MaxMoveSteps
    /\ pipeline = IF move_step % 2 = 0 THEN "fall" ELSE "slide"
    /\ LET d == step_movement([self |-> Self, builder |-> <<>>], pipeline)
           e == execute(queue, Device, d.builder, TRUE)
       IN  /\ Commit(d.self, e)
           /\ last_call' = [op |-> pipeline, args |-> <<move_step>>, ret |-> None,
                            submitted |-> <<pipeline>>, pending |-> 0,
                            before |-> buffers[matter_in]]
    /\ UNCHANGED <<calls, aux_vars>>

NextPass == MovementPass("fall") \/ MovementPass("slide")

SpecPass == InitPass /\ [][NextPass]_vars

\* the number of cells of the grid that hold matter id
CountMatter(grid, id) == Cardinality({i \in Indices : matter_id(grid[i]) = id})

(***************************************************************************)
(* The stacking scenario: grains of Sand drawn one at a time at the top of *)
(* one column of an empty grid, and step(1, false) in between              *)
(***************************************************************************)
\* the front buffer once every submitted pass has run
SettledFront == RunAll(Device, queue).buffers[matter_in]

\* the draws of the scenario so far
Drops == Cardinality({i \in 1 .. Len(trace) : trace[i].op = "draw_matter"})

\* the top cell of column x
TopOf(x) == <<x, CANVAS_SIZE_Y - 1>>

\* the simulator as constructed; the scenario starts once the grid is Empty
InitStack ==
    /\ CASimulator_new
    /\ codec = NoCodec
    /\ config = NoConfig
    /\ trace = <<>>
    /\ ca_pipeline = NoPipeline
    /\ app = NoApp

\* draw_matter(top of column x, radius 0.5, Sand): the first into a grid that is
\* Empty everywhere, the next ones into the same column when its top cell is Empty
StackDrop(x) ==
    /\ Drops < MaxGrains
    /\ \A i \in 1 .. Len(trace) : trace[i].op = "draw_matter" => trace[i].args[1] = TopOf(x)
    /\ IF Drops = 0
       THEN \A i \in Indices : is_empty(SettledFront[i])
       ELSE is_empty(Cell(SettledFront, TopOf(x)))
    /\ draw_matter_handler(TopOf(x), TopOf(x), 1, Sand, 0)
    /\ trace' = Append(trace, [op |-> "draw_matter", args |-> <<TopOf(x), 1, Sand>>])
    /\ UNCHANGED app

\* step(1, false)
StackStep ==
    /\ sim_step < MaxTicks
    /\ step_handler(1, FALSE)
    /\ trace' = Append(trace, [op |-> "step", args |-> <<1, FALSE>>])
    /\ UNCHANGED app

NextStack ==
    \/ \E x \in 0 .. (CANVAS_SIZE_X - 1) : StackDrop(x)
    \/ StackStep
    \/ QueueRun

SpecStack == InitStack /\ [][NextStack]_vars

\* the column the grains are dropped into
StackColumn == draw_pos_start[1]

\* every submitted pass has run and one more step(1, false) would change no
\* cell of the front buffer
StackAtRest ==
    /\ queue = <<>>
    /\ LET s == step(Self, 1, FALSE)
       IN  RunPasses(Device, s.builder).buffers[s.self.matter_in] = buffers[matter_in]

(***************************************************************************)
(* The overlay scenario: two draw_matter calls, then one step              *)
(***************************************************************************)
\* radius 0.5 and radius 1.0, in half units
OverlayRadii == {1, 2}

InitOverlay ==
    /\ CASimulator_new
    /\ codec = NoCodec
    /\ config = NoConfig
    /\ trace = <<>>
    /\ ca_pipeline = NoPipeline
    /\ app = NoApp

OverlayDraw(pos, radius, matter) ==
    /\ Len(trace) < 2
    /\ draw_matter_handler(pos, pos, radius, matter, 0)
    /\ trace' = Append(trace, [op |-> "draw_matter", args |-> <<pos, radius, matter>>])
    /\ UNCHANGED app

OverlayStep(move_steps, is_paused) ==
    /\ Len(trace) = 2
    /\ step_handler(move_steps, is_paused)
    /\ trace' = Append(trace, [op |-> "step", args |-> <<move_steps, is_paused>>])
    /\ UNCHANGED app

NextOverlay ==
    \/ \E pos \in Positions, radius \in OverlayRadii, matter \in MatterId :
            OverlayDraw(pos, radius, matter)
    \/ \E move_steps \in 0 .. MaxMoveSteps, is_paused \in BOOLEAN :
            OverlayStep(move_steps, is_paused)
    \/ QueueRun

SpecOverlay == InitOverlay /\ [][NextOverlay]_vars

\* the cells of the canvas in the disc of a draw_matter call of the trace
OverlayDisc(call) ==
    {pos \in Positions : within_radius(pos, call.args[1], call.args[2])}

(***************************************************************************)
(* CAPipeline (ca_pipeline.rs): the variant whose grid is host-visible and *)
(* is drawn into by the host, for any canvas size                          *)
(*   self = [width, height, matter_in, result, ...]                        *)
(***************************************************************************)
\* empty_grid: vec![0; (width * height) as usize]
empty_grid(width, height) == [i \in 0 .. ((width * height) - 1) |-> <<0, 0>>]

\* CAPipeline::is_inside
CAPipeline_is_inside(self, pos) ==
    pos[1] >= 0 /\ pos[1] < self.width /\ pos[2] >= 0 /\ pos[2] < self.height

\* the index of the write in draw_matter: (y * CANVAS_SIZE_Y as i32 + x) as usize
CAPipeline_index(self, pos) == (pos[2] * self.height) + pos[1]

\* world_pos.distance(pos).round() <= radius for radius = r2 / 2 >= 0:
\* round(d) <= radius  <=>  d < trunc(radius) + 1/2
distance_round_le(a, b, r2) ==
    LET dx == a[1] - b[1]
        dy == a[2] - b[2]
        m == r2 \div 2
    IN  4 * ((dx * dx) + (dy * dy)) < ((2 * m) + 1) * ((2 * m) + 1)

\* the two inner loops of draw_matter from the k-th cell of the square
\* pos +/- (radius as i32) on, rows first; a write past the end of the buffer
\* panics
RECURSIVE stamp(_, _, _, _, _)
stamp(self, pos, r2, value, k) ==
    LET t == r2 \div 2
        n == (2 * t) + 1
        cell == <<(pos[1] - t) + (k % n), (pos[2] - t) + (k \div n)>>
    IN  IF k = n * n THEN self
        ELSE IF distance_round_le(cell, pos, r2) /\ CAPipeline_is_inside(self, cell)
        THEN IF CAPipeline_index(self, cell) \in DOMAIN self.matter_in
             THEN stamp([self EXCEPT !.matter_in[CAPipeline_index(self, cell)] = value],
                        pos, r2, value, k + 1)
             ELSE [self EXCEPT !.result = "panic"]
        ELSE stamp(self, pos, r2, value, k + 1)

\* CAPipeline::draw_matter: the positions of the line in order, those outside
\* the canvas skipped
RECURSIVE CAPipeline_draw_matter(_, _, _, _)
CAPipeline_draw_matter(self, line, r2, matter) ==
    IF line = <<>> \/ self.result = "panic" THEN self
    ELSE CAPipeline_draw_matter(
            IF CAPipeline_is_inside(self, Head(line))
            THEN stamp(self, Head(line), r2, MatterWithColor_new(matter, 0), 0)
            ELSE self,
            Tail(line), r2, matter)

\* CAPipeline::new for a canvas of any size
InitDraw ==
    /\ CASimulator_new
    /\ codec = NoCodec
    /\ config = NoConfig
    /\ trace = <<>>
    /\ app = NoApp
    /\ \E width \in 1 .. MaxCanvas, height \in 1 .. MaxCanvas :
        ca_pipeline = [phase |-> "new", width |-> width, height |-> height,
                       matter_in |-> empty_grid(width, height), result |-> "ok",
                       line |-> <<>>, radius |-> 0, matter |-> Empty,
                       before |-> empty_grid(width, height)]

CAPipelineDrawMatter(line, r2, matter) ==
    /\ ca_pipeline.phase = "new"
    /\ LET drawn == CAPipeline_draw_matter(ca_pipeline, line, r2, matter)
       IN  ca_pipeline' = [drawn EXCEPT !.phase = "drawn", !.line = line, !.radius = r2,
                                        !.matter = matter,
                                        !.before = ca_pipeline.matter_in]
    /\ UNCHANGED <<sim_vars, codec, config, trace, app>>

\* the positions a line is drawn through: the canvas and the ring around it
StrokePositions == (-1 .. ca_pipeline.width) \X (-1 .. ca_pipeline.height)
\* lines of one position and of two positions side by side
DrawLines ==
    {<<pos>> : pos \in StrokePositions}
        \cup {<<pos, <<pos[1] + 1, pos[2]>>>> : pos \in StrokePositions}

NextDraw ==
    \E line \in DrawLines, r2 \in 0 .. MaxRadius2, matter \in MatterId :
        CAPipelineDrawMatter(line, r2, matter)

SpecDraw == InitDraw /\ [][NextDraw]_vars

\* the cell stored at an index of a grid buffer: index(x, y) = y * width + x
CAPipelineCell(i) == <<i % ca_pipeline.width, i \div ca_pipeline.width>>

\* the cells of the canvas with round(distance to pos) <= radius
CAPipelineDisc(pos, r2) ==
    {cell \in (0 .. (ca_pipeline.width - 1)) \X (0 .. (ca_pipeline.height - 1)) :
        distance_round_le(cell, pos, r2)}

(***************************************************************************)
(* The application (main.rs): each frame runs the systems simulate and     *)
(* render; the calls made to the graphics backend may fail                 *)
(***************************************************************************)
\* the fallible backend calls of command_buffer_builder and execute, in order
backend_calls(wait) ==
    <<"primary", "build", "execute", "then_signal_fence_and_flush">>
        \o (IF wait THEN <<"wait">> ELSE <<>>)

\* the outcomes a backend call can have
BackendResults == {"Ok", "Err"}

\* Result::unwrap: the value of Ok, a panic on Err
unwrap(result) == IF result = "Ok" THEN "value" ELSE "panic"

\* command_buffer_builder and execute with the backend results given: every
\* result is unwrapped, so the first Err panics
RECURSIVE run_backend_calls(_, _)
run_backend_calls(backend, results) ==
    IF backend = <<>> THEN "returned"
    ELSE IF unwrap(results[Head(backend)]) = "panic" THEN "panic"
    ELSE run_backend_calls(Tail(backend), results)

\* the results in which the backend call failed is the only Err
ResultsFailing(failed) ==
    [call \in {"primary", "build", "execute", "then_signal_fence_and_flush", "wait"} |->
        IF call = failed THEN "Err" ELSE "Ok"]

\* the system simulate: sim_pipeline.step(move_steps, is_paused), with nothing
\* between the call and the panic of an unwrap inside it
simulate(move_steps, is_paused, failed) ==
    /\ app.status = "running"
    /\ app.frame # "simulated"
    /\ sim_step < MaxFrames
    /\ IF run_backend_calls(backend_calls(FALSE), ResultsFailing(failed)) = "panic"
       THEN /\ app' = [app EXCEPT !.status = "panicked", !.failure = failed]
            /\ UNCHANGED <<sim_vars, codec, config, trace, ca_pipeline>>
       ELSE /\ step_handler(move_steps, is_paused)
            /\ app' = [app EXCEPT !.frame = "simulated", !.failure = "none",
                                  !.logged = FALSE]
            /\ UNCHANGED trace

\* the system render: an Err of start_frame is logged and the frame skipped
render(start_frame) ==
    /\ app.status = "running"
    /\ app.frame = "simulated"
    /\ IF start_frame = "Err"
       THEN app' = [app EXCEPT !.frame = "skipped", !.failure = "start_frame",
                               !.logged = TRUE]
       ELSE app' = [app EXCEPT !.frame = "rendered"]
    /\ UNCHANGED <<sim_vars, codec, config, trace, ca_pipeline>>

NextApp ==
    \/ \E move_steps \in 0 .. MaxMoveSteps, is_paused \in BOOLEAN,
          failed \in {"none", "primary", "build", "execute",
                      "then_signal_fence_and_flush"} :
            simulate(move_steps, is_paused, failed)
    \/ \E start_frame \in BackendResults : render(start_frame)
    \/ QueueRun

\* the application after setup: the simulator built, no frame made yet
InitApp ==
    /\ CASimulator_new
    /\ codec = NoCodec
    /\ config = NoConfig
    /\ trace = <<>>
    /\ ca_pipeline = NoPipeline
    /\ app = [status |-> "running", failure |-> "none", frame |-> "none",
              logged |-> FALSE]

SpecApp == InitApp /\ [][NextApp]_vars

\* the passes submitted and not yet run, oldest first
RECURSIVE PendingPasses(_)
PendingPasses(q) == IF q = <<>> THEN <<>> ELSE Head(q) \o PendingPasses(Tail(q))

\* every pass of the sequence other than a color pass leaves the image of the
\* device as it finds it
RECURSIVE ImageWrittenByColorOnly(_, _)
ImageWrittenByColorOnly(g, passes) ==
    \/ passes = <<>>
    \/ /\ Head(passes).pipeline # "color" => ExecPass(g, Head(passes)).image = g.image
       /\ ImageWrittenByColorOnly(ExecPass(g, Head(passes)), Tail(passes))

\* the number of color passes among the pipelines of a command buffer
ColorPasses(submitted) ==
    Cardinality({i \in 1 .. Len(submitted) : submitted[i] = "color"})

(***************************************************************************)
(* CAPipeline::step (ca_pipeline.rs)                                       *)
(*   self = [matter_in, matter_out, sim_step, move_step]: which buffer     *)
(*   each handle refers to, by id, and the two counters                    *)
(***************************************************************************)
\* CAPipeline::dispatch: the push constants are sim_step and move_step
CAPipeline_dispatch(sb, pipeline, swap) ==
    LET self == sb.self
        pass == [pipeline |-> pipeline, in |-> self.matter_in, out |-> self.matter_out,
                 pc |-> [sim_step |-> self.sim_step, move_step |-> self.move_step]]
    IN  [self |-> IF swap
                  THEN [self EXCEPT !.matter_in = self.matter_out,
                                    !.matter_out = self.matter_in]
                  ELSE self,
         builder |-> Append(sb.builder, pass)]

\* for _ in 0..move_steps { fall; slide; self.move_step += 1 }
RECURSIVE CAPipeline_move_loop(_, _)
CAPipeline_move_loop(sb, n) ==
    IF n = 0 THEN sb
    ELSE LET d == CAPipeline_dispatch(CAPipeline_dispatch(sb, "fall", TRUE), "slide", TRUE)
         IN  CAPipeline_move_loop([d EXCEPT !.self.move_step = @ + 1], n - 1)

\* CAPipeline::step: the object after the call and the command buffer built
CAPipeline_step(self, move_steps, is_paused) ==
    LET sb0 == [self |-> self, builder |-> <<>>]
        moved == IF ~is_paused THEN CAPipeline_move_loop(sb0, move_steps) ELSE sb0
        colored == CAPipeline_dispatch(moved, "color", FALSE)
    IN  [colored EXCEPT !.self.sim_step = @ + 1]

\* CAPipeline::new: the fields a step reads or writes; calls is the history of
\* the step calls made, before the fields as the last call found them
InitPipelineStep ==
    /\ CASimulator_new
    /\ codec = NoCodec
    /\ config = NoConfig
    /\ trace = <<>>
    /\ app = NoApp
    /\ ca_pipeline = [phase |-> "new",
                      self |-> [matter_in |-> 0, matter_out |-> 1,
                                sim_step |-> 0, move_step |-> 0],
                      before |-> [matter_in |-> 0, matter_out |-> 1,
                                  sim_step |-> 0, move_step |-> 0],
                      builder |-> <<>>, calls |-> <<>>]

CAPipelineStep(move_steps, is_paused) ==
    /\ ca_pipeline.phase = "new"
    /\ Len(ca_pipeline.calls) < MaxTicks
    /\ LET s == CAPipeline_step(ca_pipeline.self, move_steps, is_paused)
       IN  ca_pipeline' = [ca_pipeline EXCEPT
                              !.self = s.self, !.before = ca_pipeline.self,
                              !.builder = s.builder,
                              !.calls = Append(@, <<move_steps, is_paused>>)]
    /\ UNCHANGED <<sim_vars, codec, config, trace, app>>

NextPipelineStep ==
    \E move_steps \in 0 .. MaxSubsteps, is_paused \in BOOLEAN :
        CAPipelineStep(move_steps, is_paused)

SpecPipelineStep == InitPipelineStep /\ [][NextPipelineStep]_vars

\* the number of fall and slide passes in a command buffer
MovementPasses(builder) ==
    Cardinality({i \in 1 .. Len(builder) : builder[i].pipeline \in {"fall", "slide"}})

(***************************************************************************)
(* Pass order and counters: host calls on a fresh simulator, each recorded *)
(* in trace with the command buffer it built, the simulator's fields       *)
(* before it and the device as the queue was to leave it before it         *)
(***************************************************************************)
InitClock ==
    /\ CASimulator_new
    /\ codec = NoCodec
    /\ config = NoConfig
    /\ trace = <<>>
    /\ ca_pipeline = NoPipeline
    /\ app = NoApp

\* the record of a host call that is about to be made
ClockRecord(op, args, builder) ==
    [op |-> op, args |-> args, builder |-> builder, self |-> Self,
     settled |-> RunAll(Device, queue)]

ClockStep(move_steps, is_paused) ==
    /\ Len(trace) < MaxClockCalls
    /\ step_handler(move_steps, is_paused)
    /\ trace' = Append(trace, ClockRecord("step", <<move_steps, is_paused>>,
                                          step(Self, move_steps, is_paused).builder))
    /\ UNCHANGED app

ClockDraw(pos, matter) ==
    /\ Len(trace) < MaxClockCalls
    /\ draw_matter_handler(pos, pos, 1, matter, 0)
    /\ trace' = Append(trace, ClockRecord("draw_matter", <<pos, matter>>,
                                          queue'[Len(queue')]))
    /\ UNCHANGED app

ClockQuery(pos) ==
    /\ Len(trace) < MaxClockCalls
    /\ query_matter_handler(pos)
    /\ trace' = Append(trace, ClockRecord("query_matter", <<pos>>,
                                query_matter_call(Self, queue, Device, pos).builder))
    /\ UNCHANGED app

\* draws at the top left cell; queries of it and of a position past the edge
NextClock ==
    \/ \E move_steps \in 0 .. MaxSubsteps, is_paused \in BOOLEAN :
            ClockStep(move_steps, is_paused)
    \/ \E matter \in {Empty, Sand} : ClockDraw(<<0, CANVAS_SIZE_Y - 1>>, matter)
    \/ \E pos \in {<<0, CANVAS_SIZE_Y - 1>>, <<-1, 0>>} : ClockQuery(pos)
    \/ QueueRun

SpecClock == InitClock /\ [][NextClock]_vars

\* the last host call recorded
LastRecord == trace[Len(trace)]

\* move_steps times: fall, then slide with the move_step the code hands to it
RECURSIVE Substeps(_, _, _)
Substeps(grid, move_step_now, move_steps) ==
    IF move_steps = 0 THEN grid
    ELSE Substeps(completed(slide_down_empty(completed(fall_empty(grid)),
                                             [move_step |-> move_step_now + 1])),
                  move_step_now + 2, move_steps - 1)

\* the move_step values handed to the slide passes of the calls recorded, in order
RECURSIVE SlideMoveSteps(_)
SlideMoveSteps(records) ==
    IF records = <<>> THEN <<>>
    ELSE LET b == Head(records).builder
         IN  [i \in 1 .. Cardinality({j \in 1 .. Len(b) : b[j].pipeline = "slide"}) |->
                 b[2 * i].pc.move_step]
             \o SlideMoveSteps(Tail(records))

(***************************************************************************)
(* The counters at their width: sim_step and move_step are u32 fields,     *)
(* kept here as <<high half, low half>>, and stepped by the += 1 of step   *)
(* and step_movement after any number of earlier calls. An overflowing     *)
(* += 1 panics in a build with overflow checks and wraps in one without.   *)
(***************************************************************************)
\* 2^16, the size of one half of a u32
HalfWord == 65536

u32_MAX == <<HalfWord - 1, HalfWord - 1>>

\* a < b, as u32 values
u32_lt(a, b) == a[1] < b[1] \/ (a[1] = b[1] /\ a[2] < b[2])

\* a + 1 modulo 2^32
u32_wrapping_add_one(a) ==
    IF a[2] + 1 < HalfWord THEN <<a[1], a[2] + 1>> ELSE <<(a[1] + 1) % HalfWord, 0>>

Builds == {"overflow-checks", "no-overflow-checks"}

\* counter += 1 on a u32 field
add_assign_one(counters, field, build) ==
    IF counters[field] = u32_MAX /\ build = "overflow-checks"
    THEN [counters EXCEPT !.panicked = TRUE]
    ELSE [counters EXCEPT ![field] = u32_wrapping_add_one(@)]

\* the += 1 of the movement dispatches of one step, in order
RECURSIVE step_movement_counters(_, _, _)
step_movement_counters(counters, dispatches, build) ==
    IF dispatches = 0 \/ counters.panicked THEN counters
    ELSE step_movement_counters(add_assign_one(counters, "move_step", build),
                                dispatches - 1, build)

\* what step does to the counters
step_counters(counters, move_steps, is_paused, build) ==
    LET moved == IF is_paused THEN counters
                 ELSE step_movement_counters(counters, 2 * move_steps, build)
    IN  IF moved.panicked THEN moved ELSE add_assign_one(moved, "sim_step", build)

\* counters a simulator can hold between two calls: those of construction, and
\* after many calls a sim_step up to the largest u32 with any even move_step
LateCounters ==
    {[sim_step |-> <<0, 0>>, move_step |-> <<0, 0>>, panicked |-> FALSE]}
    \cup {[sim_step |-> <<HalfWord - 1, s>>, move_step |-> m, panicked |-> FALSE] :
            s \in {HalfWord - 2, HalfWord - 1},
            m \in {<<0, 0>>, <<HalfWord - 1, HalfWord - 4>>, <<HalfWord - 1, HalfWord - 2>>}}

InitWidth ==
    /\ CASimulator_new
    /\ codec = NoCodec
    /\ \E build \in Builds, counters \in LateCounters :
            config = [phase |-> "counters", build |-> build, self |-> counters]
    /\ trace = <<>>
    /\ ca_pipeline = NoPipeline
    /\ app = NoApp

\* a call of step, recorded with the counters before and after it; a panic ends
\* the program
WidthStep(move_steps, is_paused) ==
    /\ config.phase = "counters"
    /\ ~config.self.panicked
    /\ Len(trace) < MaxClockCalls
    /\ LET after == step_counters(config.self, move_steps, is_paused, config.build)
       IN  /\ config' = [config EXCEPT !.self = after]
           /\ trace' = Append(trace, [op |-> "step", args |-> <<move_steps, is_paused>>,
                                      before |-> config.self, self |-> after])
    /\ UNCHANGED <<sim_vars, codec, ca_pipeline, app>>

NextWidth ==
    \E move_steps \in 0 .. MaxSubsteps, is_paused \in BOOLEAN :
        WidthStep(move_steps, is_paused)

SpecWidth == InitWidth /\ [][NextWidth]_vars

(***************************************************************************)
(* Contested cells: the movement passes on a canvas wide enough for a cell *)
(* to have a neighbour diagonally above it on either side. The rules are   *)
(* those of fall_empty and slide_down_empty, written for a canvas of       *)
(* size = <<width, height>>; every cell drawn has a colour of its own.     *)
(***************************************************************************)
ContestSize == <<ContestW, ContestH>>

canvas_indices(size) == 0 .. ((size[1] * size[2]) - 1)

canvas_positions(size) == (0 .. (size[1] - 1)) \X (0 .. (size[2] - 1))

canvas_is_inside(size, pos) ==
    pos[1] >= 0 /\ pos[1] < size[1] /\ pos[2] >= 0 /\ pos[2] < size[2]

canvas_cell(size, grid, pos) == grid[(pos[2] * size[1]) + pos[1]]

\* the step a cell takes in a pass: straight down in fall, diagonally down to
\* the side of slide_dir in slide
movement_offset(pipeline, pc) ==
    IF pipeline = "fall" THEN <<0, -1>> ELSE <<slide_dir(pc), -1>>

\* the cell at pos is not Empty, the cell it steps to is inside and Empty and,
\* in slide, the cell directly below it is occupied
canvas_moves(size, grid, pipeline, pc, pos) ==
    LET off == movement_offset(pipeline, pc)
        to == <<pos[1] + off[1], pos[2] + off[2]>>
        below == <<pos[1], pos[2] - 1>>
    IN  /\ canvas_is_inside(size, pos)
        /\ ~is_empty(canvas_cell(size, grid, pos))
        /\ canvas_is_inside(size, to)
        /\ is_empty(canvas_cell(size, grid, to))
        /\ pipeline = "slide" => ~is_empty(canvas_cell(size, grid, below))

\* fall or slide: every cell that moves trades places with the Empty cell it
\* steps to
canvas_movement(size, grid, pipeline, pc) ==
    LET off == movement_offset(pipeline, pc)
    IN  [i \in canvas_indices(size) |->
            LET pos == <<i % size[1], i \div size[1]>>
                from == <<pos[1] - off[1], pos[2] - off[2]>>
                to == <<pos[1] + off[1], pos[2] + off[2]>>
            IN  IF canvas_moves(size, grid, pipeline, pc, from)
                THEN canvas_cell(size, grid, from)
                ELSE IF canvas_moves(size, grid, pipeline, pc, pos)
                THEN canvas_cell(size, grid, to)
                ELSE grid[i]]

\* the cell draw_matter leaves at index i: Sand on even indices, Wood on odd
\* ones, each with a jitter of its own
ContestDrawn(i) ==
    MatterWithColor_new(IF i % 2 = 0 THEN Sand ELSE Wood,
                        (i * JitterResolution) \div (ContestW * ContestH))

\* the grids draws and earlier passes can have left: any cell Empty or drawn
ContestGrids ==
    {[i \in canvas_indices(ContestSize) |->
        IF i \in drawn THEN ContestDrawn(i) ELSE MatterWithColor_new(Empty, 0)] :
     drawn \in SUBSET canvas_indices(ContestSize)}

InitContest ==
    /\ \E grid \in ContestGrids, stale \in UninitValues :
        /\ buffers = [b \in {0, 1} |->
                        IF b = 0 THEN grid
                        ELSE [i \in canvas_indices(ContestSize) |-> stale]]
        /\ image = storage_image(stale)
    /\ last_call = [NoCall EXCEPT !.op = "draw_matter"]
    /\ draw_matter = ContestDrawn(0)
    /\ matter_in = 0
    /\ matter_out = 1
    /\ image_view = StorageImageId
    /\ query_matter = MatterWithColor_from_0
    /\ sim_step = 0
    /\ move_step = 0
    /\ draw_radius = 1
    /\ draw_pos_start = <<0, 0>>
    /\ draw_pos_end = <<0, 0>>
    /\ query_pos = <<0, 0>>
    /\ queue = <<>>
    /\ calls = 0
    /\ codec = NoCodec
    /\ config = NoConfig
    /\ trace = <<>>
    /\ ca_pipeline = NoPipeline
    /\ app = NoApp

\* one step_movement of the loop of step, and the device running the pass
ContestPass(pipeline) ==
    /\ move_step < 2 * MaxMoveSteps
    /\ pipeline = IF move_step % 2 = 0 THEN "fall" ELSE "slide"
    /\ LET d == step_movement([self |-> Self, builder |-> <<>>], pipeline)
           pass == d.builder[1]
           ran == [Device EXCEPT !.buffers[pass.out] =
                        canvas_movement(ContestSize, buffers[pass.in],
                                        pass.pipeline, pass.pc)]
       IN  /\ Commit(d.self, [queue |-> <<>>, device |-> ran])
           /\ last_call' = [op |-> pipeline, args |-> <<move_step>>, ret |-> None,
                            submitted |-> <<pipeline>>, pending |-> 0,
                            before |-> buffers[matter_in]]
    /\ UNCHANGED <<calls, aux_vars>>

NextContest == ContestPass("fall") \/ ContestPass("slide")

SpecContest == InitContest /\ [][NextContest]_vars

\* the cells the cell at from may move to in a pass of the pipeline from grid
LegalTargets(grid, pipeline, from) ==
    LET below == <<from[1], from[2] - 1>>
        Free(to) == /\ canvas_is_inside(ContestSize, to)
                    /\ is_empty(canvas_cell(ContestSize, grid, to))
    IN  IF is_empty(canvas_cell(ContestSize, grid, from)) THEN {}
        ELSE IF pipeline = "fall" THEN {to \in {below} : Free(to)}
        ELSE IF Free(below) \/ ~canvas_is_inside(ContestSize, below) THEN {}
        ELSE {to \in {<<from[1] - 1, from[2] - 1>>, <<from[1] + 1, from[2] - 1>>} : Free(to)}

\* the cell at from has left its place and is at to, one of its legal targets
MovedInto(before, after, pipeline, from, to) ==
    /\ to \in LegalTargets(before, pipeline, from)
    /\ canvas_cell(ContestSize, after, to) = canvas_cell(ContestSize, before, from)
    /\ canvas_cell(ContestSize, after, from) # canvas_cell(ContestSize, before, from)

(***************************************************************************)
(* Buffer roles: the host calls of one engine, either a CASimulator or a   *)
(* CAPipeline, from construction on                                        *)
(***************************************************************************)
InitRoles == InitClock \/ InitPipelineStep

NextRoles ==
    \/ ca_pipeline = NoPipeline /\ NextClock
    \/ NextPipelineStep

SpecRoles == InitRoles /\ [][NextRoles]_vars

(***************************************************************************)
(* Worker order: a movement pass run one worker at a time, in any order.   *)
(* The worker of a cell reads the buffer bound as input as it is when the  *)
(* worker runs, and writes its cell of the buffer bound as output.         *)
(***************************************************************************)
\* what the worker of cell i writes, reading grid
movement_cell(grid, pipeline, pc, i) ==
    IF pipeline = "fall" THEN fall_empty(grid)[i] ELSE slide_down_empty(grid, pc)[i]

\* the device after the worker of cell i of the pass has run
worker_run(g, pass, i) ==
    [g EXCEPT !.buffers[pass.out][i] =
        movement_cell(g.buffers[pass.in], pass.pipeline, pass.pc, i)]

\* the grids draws can have left: any cell Empty or Sand
WorkerGrids ==
    [Indices -> {MatterWithColor_new(Empty, 0), MatterWithColor_new(Sand, 0)}]

InitWorkers ==
    /\ \E grid \in WorkerGrids :
        /\ buffers = [b \in {0, 1} |-> IF b = 0 THEN grid ELSE device_grid(<<0, 0>>)]
        /\ draw_matter = grid[0]
    /\ image = storage_image(<<0, 0>>)
    /\ last_call = [NoCall EXCEPT !.op = "draw_matter"]
    /\ matter_in = 0
    /\ matter_out = 1
    /\ image_view = StorageImageId
    /\ query_matter = MatterWithColor_from_0
    /\ sim_step = 0
    /\ move_step = 0
    /\ draw_radius = 1
    /\ draw_pos_start = <<0, 0>>
    /\ draw_pos_end = <<0, 0>>
    /\ query_pos = <<0, 0>>
    /\ queue = <<>>
    /\ calls = 0
    /\ codec = NoCodec
    /\ config = [phase |-> "workers", todo |-> {},
                 pass |-> dispatch([self |-> Self, builder |-> <<>>], "none", FALSE).builder[1],
                 snapshot |-> buffers]
    /\ trace = <<>>
    /\ ca_pipeline = NoPipeline
    /\ app = NoApp

\* one step_movement of the loop of step; the device starts the pass once the
\* pass before it has finished
WorkersDispatch(pipeline) ==
    /\ config.phase = "workers"
    /\ config.todo = {}
    /\ move_step < MaxWorkerPasses
    /\ pipeline = IF move_step % 2 = 0 THEN "fall" ELSE "slide"
    /\ LET d == step_movement([self |-> Self, builder |-> <<>>], pipeline)
       IN  /\ Commit(d.self, [queue |-> <<>>, device |-> Device])
           /\ config' = [config EXCEPT !.todo = Indices, !.pass = d.builder[1],
                                       !.snapshot = buffers]
    /\ UNCHANGED <<last_call, calls, codec, trace, ca_pipeline, app>>

\* the worker of cell i runs
WorkerRun(i) ==
    /\ config.phase = "workers"
    /\ i \in config.todo
    /\ buffers' = worker_run(Device, config.pass, i).buffers
    /\ config' = [config EXCEPT !.todo = @ \ {i}]
    /\ UNCHANGED <<matter_in, matter_out, query_matter, image, image_view, sim_step,
                   move_step, draw_radius, draw_matter, draw_pos_start, draw_pos_end,
                   query_pos, queue, last_call, calls, codec, trace, ca_pipeline, app>>

NextWorkers ==
    \/ WorkersDispatch("fall")
    \/ WorkersDispatch("slide")
    \/ \E i \in Indices : WorkerRun(i)

SpecWorkers == InitWorkers /\ [][NextWorkers]_vars

(***************************************************************************)
(* Construction on its own: CASimulator::new for any canvas and work group *)
(* sizes, then one grid-wide dispatch                                      *)
(***************************************************************************)
InitConfig ==
    /\ CASimulator_new
    /\ codec = NoCodec
    /\ \E width \in 1 .. MaxCanvas, height \in 1 .. MaxCanvas,
          local_x \in 1 .. MaxLocal, local_y \in 1 .. MaxLocal :
        config = [phase |-> "arg", width |-> width, height |-> height,
                  local_x |-> local_x, local_y |-> local_y,
                  result |-> "none", allocated |-> {}, groups |-> <<0, 0>>]
    /\ trace = <<>>
    /\ ca_pipeline = NoPipeline
    /\ app = NoApp

ConfigNew ==
    /\ config.phase = "arg"
    /\ LET r == run_new(config, new_statements, {})
       IN  config' = [config EXCEPT !.phase = "new", !.result = r.result,
                                    !.allocated = r.allocated]
    /\ UNCHANGED <<sim_vars, codec, trace, ca_pipeline, app>>

\* a dispatch of the simulator that was built: [NUM_WORK_GROUPS_X, NUM_WORK_GROUPS_Y, 1]
ConfigDispatch ==
    /\ config.phase = "new"
    /\ config.result = "ok"
    /\ config' = [config EXCEPT !.phase = "dispatched",
                                !.groups = <<num_work_groups(config.width, config.local_x),
                                             num_work_groups(config.height, config.local_y)>>]
    /\ UNCHANGED <<sim_vars, codec, trace, ca_pipeline, app>>

NextConfig == ConfigNew \/ ConfigDispatch

SpecConfig == InitConfig /\ [][NextConfig]_vars

\* the workers of the dispatch: <<work group x, y, local invocation x, y>>
Workers ==
    (0 .. (config.groups[1] - 1)) \X (0 .. (config.groups[2] - 1))
        \X (0 .. (config.local_x - 1)) \X (0 .. (config.local_y - 1))

\* the cell a worker processes: work group id * work group size + local id
global_invocation_id(worker) ==
    <<(worker[1] * config.local_x) + worker[3], (worker[2] * config.local_y) + worker[4]>>

\* the cells of the canvas of config
ConfigCells == (0 .. (config.width - 1)) \X (0 .. (config.height - 1))

(***************************************************************************)
(* Observations used by the properties                                     *)
(***************************************************************************)
\* the device once every submitted pass has run
Settled == RunAll(Device, queue)
\* the front buffer (the one matter_in refers to) once every submitted pass has run
Front == Settled.buffers[matter_in]
\* what query_matter(pos) returns when it is called in the current state
QueryResult(pos) == query_matter_call(Self, queue, Device, pos).ret
\* the 24-bit colour of a cell value
Rgb(value) == (value[1] * 256) + (value[2] \div 256)
\* the grid holds Sand at pos and Empty everywhere else
OnlySandAt(grid, pos) ==
    \A p \in Positions : matter_id(Cell(grid, p)) = IF p = pos THEN Sand ELSE Empty

(***************************************************************************)
(* Properties                                                              *)
(***************************************************************************)

\* C1 (gravity): when the grid holds one grain of Sand at (x, y), y >= 1, and
\* is Empty elsewhere, then after step(1, FALSE) query_matter(x, y) returns
\* Some(Empty) and query_matter(x, y - 1) returns Some(Sand).
C1_Gravity ==
    (last_call.op = "step" /\ last_call.args = <<1, FALSE>>) =>
        \A pos \in Positions :
            (pos[2] >= 1 /\ OnlySandAt(last_call.before, pos)) =>
                /\ QueryResult(pos) = Some(Empty)
                /\ QueryResult(DOWN(pos)) = Some(Sand)

\* a grain drawn at (x, y), y >= 1, with radius 0.5 into the empty grid has
\* been moved to (x, y - 1) by step(1, FALSE)
C1_Witness ==
    /\ last_call.op = "step"
    /\ last_call.args = <<1, FALSE>>
    /\ queue = <<>>
    /\ draw_radius = 1
    /\ matter_id(draw_matter) = Sand
    /\ draw_pos_start[2] >= 1
    /\ draw_pos_start = draw_pos_end
    /\ OnlySandAt(last_call.before, draw_pos_start)
    /\ OnlySandAt(buffers[matter_in], DOWN(draw_pos_start))

\* C2 (program order): a query_matter(pos) at an in-bounds pos returns the
\* matter the front buffer holds at pos once every pass submitted before the
\* call has run, and it returns only when the queue is empty.
C2_QueryObservesEarlierCalls ==
    (last_call.op = "query_matter" /\ last_call.args[1] \in Positions) =>
        /\ last_call.ret = Some(matter_id(Cell(last_call.before, last_call.args[1])))
        /\ queue = <<>>

\* a query made while a draw of Sand was still in the queue returned Sand
C2_Witness ==
    /\ last_call.op = "query_matter"
    /\ last_call.pending > 0
    /\ last_call.ret = Some(Sand)
    /\ matter_id(draw_matter) = Sand
    /\ draw_pos_start = last_call.args[1]

\* C3 (fresh grid): a query_matter at an in-bounds position that is the first
\* call after construction returns Some(Empty).
C3_FreshGridIsEmpty ==
    (calls = 1 /\ last_call.op = "query_matter" /\ last_call.args[1] \in Positions)
        => last_call.ret = Some(Empty)

\* C4 (construction): when new returns, every cell of both grid buffers holds
\* the value of MatterWithColor::new(MatterId::Empty).
C4_BuffersFilledWithEmpty ==
    calls = 0 =>
        \A b \in {0, 1}, i \in Indices : buffers[b][i] = MatterWithColor_new(Empty, 0)

\* C5 (bounds): query_matter(pos) returns None exactly when pos.x < 0,
\* pos.x >= width, pos.y < 0 or pos.y >= height, and Some(matter) otherwise.
C5_QueryBounds ==
    last_call.op = "query_matter" =>
        LET pos == last_call.args[1]
            outside == \/ pos[1] < 0
                       \/ pos[1] >= CANVAS_SIZE_X
                       \/ pos[2] < 0
                       \/ pos[2] >= CANVAS_SIZE_Y
        IN  /\ (last_call.ret = None) <=> outside
            /\ ~outside => (Len(last_call.ret) = 2 /\ last_call.ret[1] = "Some")

\* a query one past the right edge returned None
C5_Witness ==
    /\ last_call.op = "query_matter"
    /\ last_call.args[1] = <<CANVAS_SIZE_X, 0>>
    /\ last_call.ret = None

\* C6 (pause): step(n, TRUE) submits no fall and no slide pass, and every
\* in-bounds query_matter returns the same matter after the call as before it.
C6_PausedStepMovesNothing ==
    (last_call.op = "step" /\ last_call.args[2] = TRUE) =>
        /\ \A i \in 1 .. Len(last_call.submitted) :
                last_call.submitted[i] \notin {"fall", "slide"}
        /\ \A pos \in Positions :
                QueryResult(pos) = Some(matter_id(Cell(last_call.before, pos)))

\* after a step(1, TRUE) a grain of Sand that is free to fall is still where it was
C6_Witness ==
    /\ last_call.op = "step"
    /\ last_call.args = <<1, TRUE>>
    /\ \E pos \in Positions :
        /\ falls(last_call.before, pos)
        /\ matter_id(Cell(last_call.before, pos)) = Sand
        /\ QueryResult(pos) = Some(Sand)

\* C7 (colouring): every step submits exactly one color pass, as its last pass,
\* paused or not; and once a paused step has run, the image shows the colour
\* of every cell of the front buffer.
C7_ColorPassEveryStep ==
    last_call.op = "step" =>
        LET n == Len(last_call.submitted)
        IN  /\ n >= 1
            /\ last_call.submitted[n] = "color"
            /\ \A i \in 1 .. (n - 1) : last_call.submitted[i] # "color"
            /\ last_call.args[2] = TRUE => Settled.image = color(Front)

\* a paused step has run and the image shows the Sand drawn before it
C7_Witness ==
    /\ last_call.op = "step"
    /\ last_call.args[2] = TRUE
    /\ queue = <<>>
    /\ matter_id(draw_matter) = Sand
    /\ \E pos \in Positions :
        /\ pos = draw_pos_start
        /\ Cell(buffers[matter_in], pos) = draw_matter
        /\ image[get_index(pos)] = Rgb(draw_matter)
        /\ \E other \in Positions : image[get_index(other)] # Rgb(draw_matter)

\* C8 (round trip): MatterWithColor::new(m).matter_id() = m for every matter m
\* and every jitter.
C8_CodecRoundTrip ==
    codec.phase = "id" => codec.decoded = codec.matter

\* Wood has been encoded with a non-zero jitter and decoded
C8_Witness ==
    /\ codec.phase = "id"
    /\ codec.matter = Wood
    /\ codec.jitter = JitterResolution - 1
    /\ codec.value # MatterWithColor_new(Wood, 0)

\* C9 (Empty is deterministic): MatterWithColor::new(Empty) is the same value
\* for every jitter, 0xfefefe00: the grey-scaled EMPTY_COLOR with id 0; it
\* decodes to Empty.
C9_EmptyIsDeterministic ==
    (codec.phase \in {"new", "id"} /\ codec.matter = Empty) =>
        /\ codec.value = <<65278, 65024>>
        /\ Rgb(codec.value) = Rgb(u8_rgba_to_u32_rgba(color_rgba_u8(Empty)[1],
                                   color_rgba_u8(Empty)[2], color_rgba_u8(Empty)[3], 0))
        /\ matter_id(codec.value) = Empty

\* Empty has been encoded with the largest jitter
C9_Witness ==
    /\ codec.phase = "new"
    /\ codec.matter = Empty
    /\ codec.jitter = JitterResolution - 1

\* C10 (canonical Empty): every cell of the front buffer whose matter id is
\* Empty holds the value of MatterWithColor::new(MatterId::Empty).
C10_EmptyCellsAreCanonical ==
    \A i \in Indices :
        is_empty(buffers[matter_in][i]) =>
            buffers[matter_in][i] = MatterWithColor_new(Empty, 0)

\* C11 (construction): new panics, with nothing allocated or built, whenever
\* width % local_x # 0 or height % local_y # 0, and otherwise returns with both
\* grid buffers, the result buffer, the pipelines and the image.
C11_ConstructionChecksSizes ==
    config.phase \in {"new", "dispatched"} =>
        LET indivisible == \/ config.width % config.local_x # 0
                           \/ config.height % config.local_y # 0
        IN  /\ indivisible => (config.result = "panic" /\ config.allocated = {})
            /\ ~indivisible =>
                /\ config.result = "ok"
                /\ config.allocated =
                     {"matter_in", "matter_out", "query_matter", "pipelines", "image"}

\* construction has panicked for a width that divides and a height that does not
C11_Witness ==
    /\ config.phase = "new"
    /\ config.width % config.local_x = 0
    /\ config.height % config.local_y # 0
    /\ config.result = "panic"

\* C12 (coverage): after a successful construction a dispatch runs
\* (width / local_x) x (height / local_y) work groups of local_x x local_y
\* workers, no worker is outside the canvas and every cell of the canvas is the
\* cell of exactly one worker.
C12_EveryCellOneWorker ==
    config.phase = "dispatched" =>
        /\ config.groups[1] * config.local_x = config.width
        /\ config.groups[2] * config.local_y = config.height
        /\ \A worker \in Workers : global_invocation_id(worker) \in ConfigCells
        /\ \A cell \in ConfigCells :
                Cardinality({worker \in Workers : global_invocation_id(worker) = cell}) = 1

\* a canvas of several work groups of several workers each has been dispatched
C12_Witness ==
    /\ config.phase = "dispatched"
    /\ config.local_x > 1
    /\ config.local_y > 1
    /\ config.groups[1] > 1
    /\ config.groups[2] > 1

\* C13 (conservation): a fall or slide pass leaves the number of cells of
\* every non-empty matter in the front buffer what it was before the pass, on
\* every grid; so it is what it was after any number of passes.
C13_MovementConservesMatter ==
    last_call.op \in {"fall", "slide"} =>
        \A id \in MatterId \ {Empty} :
            CountMatter(buffers[matter_in], id) = CountMatter(last_call.before, id)

\* a slide pass has moved a cell of a grid that holds Sand and Wood
C13_Witness ==
    /\ last_call.op = "slide"
    /\ buffers[matter_in] # last_call.before
    /\ CountMatter(buffers[matter_in], Sand) >= 1
    /\ CountMatter(buffers[matter_in], Wood) >= 1

C16_DrawWritesTheDisc ==
    (/\ ca_pipeline.phase = "drawn"
     /\ Len(ca_pipeline.line) = 1
     /\ CAPipeline_is_inside(ca_pipeline, ca_pipeline.line[1])) =>
        /\ ca_pipeline.result = "ok"
        /\ \A i \in DOMAIN ca_pipeline.before :
              ca_pipeline.matter_in[i] =
                  IF CAPipelineCell(i) \in CAPipelineDisc(ca_pipeline.line[1], ca_pipeline.radius)
                  THEN MatterWithColor_new(ca_pipeline.matter, 0)
                  ELSE ca_pipeline.before[i]

\* C17 (out of bounds): a draw_matter of any line and radius ends normally (no
\* write is past the end of the buffer) and leaves every cell that is in the
\* disc of no position of the line as it was.
C17_DrawOutsideIsNoOp ==
    ca_pipeline.phase = "drawn" =>
        /\ ca_pipeline.result = "ok"
        /\ \A i \in DOMAIN ca_pipeline.before :
              (\A k \in 1 .. Len(ca_pipeline.line) :
                    CAPipelineCell(i) \notin CAPipelineDisc(ca_pipeline.line[k],
                                                            ca_pipeline.radius))
                  => ca_pipeline.matter_in[i] = ca_pipeline.before[i]

\* C18 (image written by the color pass only): no draw, query, fall or slide
\* pass changes a pixel of the image, neither the pass the queue runs next
\* nor a draw or query pass dispatched now; a draw_matter call submits its draw pass and nothing
\* else and a query_matter call no color pass, so a draw does not show in the
\* image before a later step; and a step submits at most one color pass, so
\* the image changes at most once per step.
C18_ImageWrittenByColorPassOnly ==
    /\ queue # <<>> => ImageWrittenByColorOnly(Device, <<Head(Head(queue))>>)
    /\ \A pipeline \in {"draw_matter", "query_matter"} :
          ImageWrittenByColorOnly(Device,
              dispatch([self |-> Self, builder |-> <<>>], pipeline, FALSE).builder)
    /\ last_call.op = "draw_matter" => last_call.submitted = <<"draw_matter">>
    /\ last_call.op = "query_matter" => ColorPasses(last_call.submitted) = 0
    /\ last_call.op = "step" => ColorPasses(last_call.submitted) <= 1

\* a draw of Sand made after a step has run: the cell holds the Sand and the
\* image does not show it
C18_Witness ==
    /\ last_call.op = "draw_matter"
    /\ queue = <<>>
    /\ sim_step >= 1
    /\ matter_id(draw_matter) = Sand
    /\ is_inside(draw_pos_start)
    /\ Cell(buffers[matter_in], draw_pos_start) = draw_matter
    /\ image[get_index(draw_pos_start)] # Rgb(draw_matter)

\* C19 (image identity): after any draw_matter, query_matter and step calls,
\* buffer swaps included, color_image() returns the handle of the image
\* allocated by new, and every pass submitted is bound to that same image.
C19_ColorImageIsTheImageOfNew ==
    /\ color_image(Self) = StorageImageId
    /\ \A i \in 1 .. Len(PendingPasses(queue)) :
          PendingPasses(queue)[i].image = StorageImageId

\* a step that swapped the grid buffers twice has been made, its passes are
\* pending, and color_image() is the image of new
C19_Witness ==
    /\ last_call.op = "step"
    /\ last_call.submitted = <<"fall", "slide", "color">>
    /\ move_step >= 2
    /\ queue # <<>>
    /\ color_image(Self) = StorageImageId
    /\ Head(queue)[1].image = StorageImageId

\* C20 (backend failure): whenever a backend call of a frame has failed, the
\* process is still running, the failure has been logged and the frame has
\* been skipped.
C20_BackendFailureSkipsFrame ==
    app.failure # "none" =>
        /\ app.status = "running"
        /\ app.logged
        /\ app.frame = "skipped"

\* C22 (pass ordering): step(n, false) records fall, slide n times over and
\* then one color pass; the first pass reads the front buffer of before the
\* call and every later pass reads the buffer the pass before it wrote; and
\* once the queue has run them the front buffer is fall then slide, n times
\* over, of the front buffer of before the call.
C22_PassOrder ==
    (trace # <<>> /\ LastRecord.op = "step" /\ ~LastRecord.args[2]) =>
        LET b == LastRecord.builder
            n == LastRecord.args[1]
        IN  /\ Len(b) = (2 * n) + 1
            /\ \A k \in 1 .. n : b[(2 * k) - 1].pipeline = "fall" /\ b[2 * k].pipeline = "slide"
            /\ b[Len(b)].pipeline = "color"
            /\ b[1].in = LastRecord.self.matter_in
            /\ \A i \in 2 .. Len(b) : b[i].in = b[i - 1].out
            /\ RunAll(Device, queue).buffers[matter_in]
                  = Substeps(LastRecord.settled.buffers[LastRecord.self.matter_in],
                             LastRecord.self.move_step, n)

\* a step of two substeps was made after a draw of Sand, and the grain moved
C22_Witness ==
    /\ Len(trace) = 2
    /\ trace[1].op = "draw_matter"
    /\ trace[1].args[2] = Sand
    /\ LastRecord.op = "step"
    /\ LastRecord.args = <<2, FALSE>>
    /\ queue = <<>>
    /\ buffers[matter_in] # LastRecord.settled.buffers[LastRecord.self.matter_in]
    /\ matter_id(Cell(buffers[matter_in], <<0, CANVAS_SIZE_Y - 1>>)) # Sand

\* C23 (swaps): over the passes a host call records, the two buffer roles
\* are exchanged right after every fall and every slide pass and stay as they
\* are after every color, draw and query pass; a call that records no pass
\* leaves them as they are.
C23_SwapAfterMovementOnly ==
    trace # <<>> =>
        LET b == LastRecord.builder
            in_after(i) == IF i < Len(b) THEN b[i + 1].in ELSE matter_in
            out_after(i) == IF i < Len(b) THEN b[i + 1].out ELSE matter_out
        IN  /\ b = <<>> => /\ matter_in = LastRecord.self.matter_in
                           /\ matter_out = LastRecord.self.matter_out
            /\ b # <<>> => /\ b[1].in = LastRecord.self.matter_in
                           /\ b[1].out = LastRecord.self.matter_out
            /\ \A i \in 1 .. Len(b) :
                  IF b[i].pipeline \in {"fall", "slide"}
                  THEN in_after(i) = b[i].out /\ out_after(i) = b[i].in
                  ELSE in_after(i) = b[i].in /\ out_after(i) = b[i].out

\* a draw, then a step of one substep: two swaps, and the color pass reads the
\* buffer that was front before the step
C23_Witness ==
    /\ Len(trace) = 2
    /\ trace[1].op = "draw_matter"
    /\ LastRecord.op = "step"
    /\ LastRecord.args = <<1, FALSE>>
    /\ LastRecord.builder[1].out = LastRecord.self.matter_out
    /\ LastRecord.builder[2].in = LastRecord.self.matter_out
    /\ LastRecord.builder[3].pipeline = "color"
    /\ LastRecord.builder[3].in = LastRecord.self.matter_in
    /\ matter_in = LastRecord.self.matter_in

\* C24 (move_step per movement pass): a step call raises move_step by the
\* number of fall and slide passes it records: by 2n for step(n, false), by 0
\* for step(n, true).
C24_MoveStepPerMovementPass ==
    ca_pipeline.calls # <<>> =>
        LET args == ca_pipeline.calls[Len(ca_pipeline.calls)]
        IN  /\ ca_pipeline.self.move_step
                  = ca_pipeline.before.move_step + MovementPasses(ca_pipeline.builder)
            /\ ca_pipeline.self.move_step
                  = ca_pipeline.before.move_step + (IF args[2] THEN 0 ELSE 2 * args[1])

\* C25 (tie-break alternation): of the move_step values handed to the slide
\* passes, within a step and from one step to the next, any two in a row
\* differ in parity.
C25_SlideParityAlternates ==
    LET handed == SlideMoveSteps(trace)
    IN  \A i \in 1 .. (Len(handed) - 1) : handed[i] % 2 # handed[i + 1] % 2

\* C26 (monotonic clock): every call of step leaves sim_step exactly one
\* above what it was, and no call leaves sim_step or move_step below what it
\* was or back at the value of construction.
C26_ClockMonotonic ==
    \A i \in 1 .. Len(trace) :
        LET before == trace[i].before
            after == trace[i].self
        IN  /\ after.sim_step = u32_wrapping_add_one(before.sim_step)
            /\ u32_lt(before.sim_step, after.sim_step)
            /\ ~u32_lt(after.move_step, before.move_step)
            /\ before.move_step # <<0, 0>> => after.move_step # <<0, 0>>

\* C27 (draw and query keep the clock): a call of draw_matter or query_matter
\* leaves sim_step, move_step and the front and back buffer indices as they
\* were; query_matter leaves every cell of both buffers as the queue was to
\* leave it; a query_matter outside the canvas records no dispatch and leaves
\* every field of the simulator, query_pos included, and the device as they were.
C27_DrawAndQueryKeepTheClock ==
    (trace # <<>> /\ LastRecord.op \in {"draw_matter", "query_matter"}) =>
        /\ sim_step = LastRecord.self.sim_step
        /\ move_step = LastRecord.self.move_step
        /\ matter_in = LastRecord.self.matter_in
        /\ matter_out = LastRecord.self.matter_out
        /\ LastRecord.op = "query_matter" =>
                RunAll(Device, queue).buffers = LastRecord.settled.buffers
        /\ (LastRecord.op = "query_matter" /\ ~is_inside(LastRecord.args[1])) =>
                /\ LastRecord.builder = <<>>
                /\ Self = LastRecord.self
                /\ RunAll(Device, queue) = LastRecord.settled

\* a query inside the canvas has moved query_pos, and the query outside the
\* canvas that follows it has left it there
C27_Witness ==
    /\ Len(trace) = 2
    /\ trace[1].op = "query_matter"
    /\ is_inside(trace[1].args[1])
    /\ trace[1].self.query_pos # trace[1].args[1]
    /\ trace[2].op = "query_matter"
    /\ ~is_inside(trace[2].args[1])
    /\ query_pos = trace[1].args[1]

\* C28 (fall rule): after a fall pass, a cell that was not Empty is in the
\* cell directly below, and the Empty value of that cell is in its place, exactly
\* when the cell below was inside the grid and Empty before the pass; a cell
\* above a cell that was not Empty, and a cell of the bottom row, holds the
\* value it held; an Empty cell nothing fell into is unchanged; and the grid
\* holds as many cells of every matter as before.
C28_FallRule ==
    last_call.op = "fall" =>
        LET before == last_call.before
            after == buffers[matter_in]
        IN  /\ \A pos \in Positions :
                LET below == <<pos[1], pos[2] - 1>>
                    above == <<pos[1], pos[2] + 1>>
                IN  IF ~is_empty(Cell(before, pos))
                    THEN IF is_inside_sim_canvas(below) /\ is_empty(Cell(before, below))
                         THEN /\ Cell(after, below) = Cell(before, pos)
                              /\ Cell(after, pos) = Cell(before, below)
                         ELSE Cell(after, pos) = Cell(before, pos)
                    ELSE (~is_inside_sim_canvas(above) \/ is_empty(Cell(before, above))) =>
                            Cell(after, pos) = Cell(before, pos)
            /\ \A id \in MatterId \ {Empty} :
                CountMatter(after, id) = CountMatter(before, id)

\* a fall pass has moved one cell down while a cell of the bottom row and the
\* cell above it have stayed
C28_Witness ==
    /\ last_call.op = "fall"
    /\ \E pos \in Positions :
        /\ pos[2] > 0
        /\ ~is_empty(Cell(last_call.before, pos))
        /\ is_empty(Cell(last_call.before, <<pos[1], pos[2] - 1>>))
        /\ Cell(buffers[matter_in], <<pos[1], pos[2] - 1>>) = Cell(last_call.before, pos)
    /\ \E pos \in Positions :
        /\ pos[2] = 0
        /\ ~is_empty(Cell(last_call.before, pos))
        /\ ~is_empty(Cell(last_call.before, <<pos[1], 1>>))
        /\ Cell(buffers[matter_in], pos) = Cell(last_call.before, pos)
        /\ Cell(buffers[matter_in], <<pos[1], 1>>) = Cell(last_call.before, <<pos[1], 1>>)

\* C29 (slide rule): after a slide pass, a cell that was not Empty either holds
\* the value it held, or the cell directly below it was inside the grid and not
\* Empty and one of its two diagonal cells below was inside the grid and Empty
\* and now holds its value, the Empty value being in its place; an Empty cell
\* either is unchanged or has received the cell diagonally above it this way.
C29_SlideRule ==
    last_call.op = "slide" =>
        LET before == last_call.before
            after == buffers[matter_in]
            \* the cell at from may slide to the cell at to
            Legal(from, to) ==
                /\ is_inside_sim_canvas(from)
                /\ is_inside_sim_canvas(to)
                /\ to[2] = from[2] - 1
                /\ to[1] \in {from[1] - 1, from[1] + 1}
                /\ ~is_empty(Cell(before, from))
                /\ ~is_empty(Cell(before, <<from[1], from[2] - 1>>))
                /\ is_empty(Cell(before, to))
            Slid(from, to) ==
                /\ Legal(from, to)
                /\ Cell(after, to) = Cell(before, from)
                /\ Cell(after, from) = Cell(before, to)
        IN  \A pos \in Positions :
                \/ Cell(after, pos) = Cell(before, pos)
                \/ /\ ~is_empty(Cell(before, pos))
                   /\ \E to \in Positions : Slid(pos, to)
                \/ /\ is_empty(Cell(before, pos))
                   /\ \E from \in Positions : Slid(from, pos)

\* a slide pass has moved a cell diagonally down, and the cell it rested on,
\* which has no free diagonal, has stayed
C29_Witness ==
    /\ last_call.op = "slide"
    /\ \E pos \in Positions, side \in {-1, 1} :
        LET to == <<pos[1] + side, pos[2] - 1>>
            below == <<pos[1], pos[2] - 1>>
        IN  /\ is_inside_sim_canvas(to)
            /\ ~is_empty(Cell(last_call.before, pos))
            /\ ~is_empty(Cell(last_call.before, below))
            /\ is_empty(Cell(last_call.before, to))
            /\ Cell(buffers[matter_in], to) = Cell(last_call.before, pos)
            /\ is_empty(Cell(buffers[matter_in], pos))
            /\ Cell(buffers[matter_in], below) = Cell(last_call.before, below)

\* C30 (single writer): after a movement pass, no cell holds the value of
\* more than one cell that moved into it; every cell that was not Empty is
\* either where it was or at one of its legal targets, and its value is in
\* exactly one cell of the grid, so of the cells that had the same Empty cell
\* as a legal target at most one has moved into it and none is lost.
C30_SingleWriter ==
    last_call.op \in {"fall", "slide"} =>
        LET before == last_call.before
            after == buffers[matter_in]
            cells == canvas_positions(ContestSize)
            Occupied == {s \in cells : ~is_empty(canvas_cell(ContestSize, before, s))}
        IN  /\ \A to \in cells :
                Cardinality({from \in Occupied :
                    MovedInto(before, after, last_call.op, from, to)}) <= 1
            /\ \A from \in Occupied :
                /\ Cardinality({to \in cells : canvas_cell(ContestSize, after, to) =
                                    canvas_cell(ContestSize, before, from)}) = 1
                /\ \/ canvas_cell(ContestSize, after, from) =
                        canvas_cell(ContestSize, before, from)
                   \/ \E to \in cells : MovedInto(before, after, last_call.op, from, to)

\* two cells had the same Empty cell as a legal target of a slide pass; one
\* of them is in it and the other is where it was
C30_Witness ==
    /\ last_call.op = "slide"
    /\ \E to \in canvas_positions(ContestSize) :
        \E from, other \in canvas_positions(ContestSize) :
            /\ from # other
            /\ to \in LegalTargets(last_call.before, "slide", from)
            /\ to \in LegalTargets(last_call.before, "slide", other)
            /\ MovedInto(last_call.before, buffers[matter_in], "slide", from, to)
            /\ canvas_cell(ContestSize, buffers[matter_in], other) =
                    canvas_cell(ContestSize, last_call.before, other)

\* C31 (snapshot determinism): while the workers of a movement pass run, in
\* whatever order, the buffer bound as input stays what it was when the pass
\* started, and every cell a worker has written holds what the rule of the pass
\* gives for the front buffer and the move_step of that moment; so once all
\* workers have run, the new front buffer is that function of them, whatever
\* the order and whatever the back buffer held.
C31_SnapshotDeterminism ==
    (config.phase = "workers" /\ config.pass.pipeline \in {"fall", "slide"}) =>
        LET pass == config.pass
            front == config.snapshot[pass.in]
            result == IF pass.pipeline = "fall" THEN fall_empty(front)
                      ELSE slide_down_empty(front, [move_step |-> pass.pc.move_step])
        IN  /\ buffers[pass.in] = front
            /\ \A i \in Indices \ config.todo : buffers[pass.out][i] = result[i]
            /\ config.todo = {} => buffers[matter_in] = result

\* the worker of the cell a grain moves to has run before the worker of the
\* cell the grain leaves
C31_Witness ==
    /\ config.phase = "workers"
    /\ config.pass.pipeline \in {"fall", "slide"}
    /\ \E from, to \in Indices :
        /\ from \in config.todo
        /\ to \notin config.todo
        /\ ~is_empty(config.snapshot[config.pass.in][from])
        /\ is_empty(config.snapshot[config.pass.in][to])
        /\ buffers[config.pass.out][to] = config.snapshot[config.pass.in][from]

\* C32 (valid matter bytes): in every state, the low byte of every cell of both
\* grid buffers and of the query result buffer is the id of a matter.
C32_MatterBytesValid ==
    /\ \A b \in {0, 1}, i \in Indices : matter_id(buffers[b][i]) \in MatterId
    /\ matter_id(query_matter) \in MatterId

\* C33 (stroke position outside the grid): after a draw_matter of one position
\* that lies outside the canvas, every cell of the canvas with
\* round(distance to the position) <= radius holds the matter's value.
C33_OutsidePositionStillStamps ==
    (/\ ca_pipeline.phase = "drawn"
     /\ Len(ca_pipeline.line) = 1
     /\ ~CAPipeline_is_inside(ca_pipeline, ca_pipeline.line[1])) =>
        \A i \in DOMAIN ca_pipeline.before :
            CAPipelineCell(i) \in CAPipelineDisc(ca_pipeline.line[1], ca_pipeline.radius) =>
                ca_pipeline.matter_in[i] = MatterWithColor_new(ca_pipeline.matter, 0)

\* C34 (row-major addressing): a draw_matter of one position inside the canvas
\* with radius 0 ends normally and writes the matter's value at index
\* y * width + x, an index below width * height, and at no other index;
\* distinct cells of the canvas have distinct indices.
C34_RowMajorIndex ==
    (/\ ca_pipeline.phase = "drawn"
     /\ Len(ca_pipeline.line) = 1
     /\ ca_pipeline.radius = 0
     /\ CAPipeline_is_inside(ca_pipeline, ca_pipeline.line[1])) =>
        LET pos == ca_pipeline.line[1]
            index == (pos[2] * ca_pipeline.width) + pos[1]
            cells == (0 .. (ca_pipeline.width - 1)) \X (0 .. (ca_pipeline.height - 1))
        IN  /\ ca_pipeline.result = "ok"
            /\ index < ca_pipeline.width * ca_pipeline.height
            /\ ca_pipeline.matter_in[index] = MatterWithColor_new(ca_pipeline.matter, 0)
            /\ \A i \in DOMAIN ca_pipeline.before :
                  i # index => ca_pipeline.matter_in[i] = ca_pipeline.before[i]
            /\ \A a, b \in cells :
                  CAPipeline_index(ca_pipeline, a) = CAPipeline_index(ca_pipeline, b) => a = b
            /\ \A a \in cells :
                  CAPipeline_index(ca_pipeline, a) < ca_pipeline.width * ca_pipeline.height

\* C35 (a draw is applied once): in the stacking scenario the grid holds,
\* once the queue has run, exactly one Sand cell per draw_matter call made,
\* however many steps followed; the grid a step starts its movement passes
\* from already holds the grain of the draw made before it; and after a step
\* from a grid where the drawn cell had an Empty cell below, the drawn cell is
\* Empty, while the simulator still stores the stroke.
C35_DrawAppliedOnce ==
    /\ CountMatter(SettledFront, Sand) = Drops
    /\ (trace # <<>> /\ trace[Len(trace)].op = "step") =>
        /\ last_call.op = "step"
        /\ CountMatter(last_call.before, Sand) = Drops
        /\ "draw_matter" \notin {last_call.submitted[i] : i \in 1 .. Len(last_call.submitted)}
        /\ (/\ Drops >= 1
            /\ matter_id(Cell(last_call.before, TopOf(StackColumn))) = Sand
            /\ is_empty(Cell(last_call.before, DOWN(TopOf(StackColumn))))) =>
                /\ is_empty(Cell(SettledFront, TopOf(StackColumn)))
                /\ draw_pos_start = TopOf(StackColumn)
                /\ draw_matter = MatterWithColor_new(Sand, 0)

\* one grain was drawn and two steps followed: the grain lies on the floor,
\* the cell it was drawn at is Empty and the stroke is still stored
C35_Witness ==
    /\ Len(trace) = 3
    /\ trace[1].op = "draw_matter"
    /\ trace[2].op = "step"
    /\ trace[3].op = "step"
    /\ queue = <<>>
    /\ is_empty(Cell(buffers[matter_in], TopOf(StackColumn)))
    /\ matter_id(Cell(buffers[matter_in], <<StackColumn, 0>>)) = Sand
    /\ CountMatter(buffers[matter_in], Sand) = 1
    /\ draw_pos_start = TopOf(StackColumn)
    /\ draw_matter = MatterWithColor_new(Sand, 0)

\* C36 (image agrees with the grid): once the queue has run the passes of a
\* step, paused or not, the color pass of the step has read the buffer that is
\* front after the call, and every pixel of the image is the colour of the
\* cell that a query_matter at that position reads.
C36_ImageAgreesWithGrid ==
    (trace # <<>> /\ LastRecord.op = "step") =>
        LET b == LastRecord.builder
            settled == RunAll(Device, queue)
        IN  /\ b[Len(b)].pipeline = "color"
            /\ b[Len(b)].in = matter_in
            /\ \A pos \in Positions :
                settled.image[get_index(pos)] =
                    Rgb(query_matter_call(Self, queue, Device, pos).e.device.query_matter)

\* a step has moved the Sand drawn before it, and the image shows the grain
\* where it is now and not where it was drawn
C36_Witness ==
    /\ Len(trace) = 2
    /\ trace[1].op = "draw_matter"
    /\ trace[1].args[2] = Sand
    /\ LastRecord.op = "step"
    /\ ~LastRecord.args[2]
    /\ queue = <<>>
    /\ is_empty(Cell(buffers[matter_in], trace[1].args[1]))
    /\ image[get_index(DOWN(trace[1].args[1]))] = Rgb(draw_matter)
    /\ image[get_index(trace[1].args[1])] # Rgb(draw_matter)
    /\ image # color(LastRecord.settled.buffers[LastRecord.self.matter_in])

\* C37 (buffer roles restored): between host calls the input buffer of the
\* engine, CASimulator or CAPipeline, is the buffer that was the input buffer
\* at construction and the output buffer the other one; every step has recorded
\* an even number of movement passes, each followed by a swap; and every draw
\* and query pass is bound to that same input buffer.
C37_RolesRestored ==
    /\ ca_pipeline = NoPipeline =>
        /\ matter_in = 0
        /\ matter_out = 1
        /\ trace # <<>> =>
            /\ MovementPasses(LastRecord.builder) % 2 = 0
            /\ \A i \in 1 .. Len(LastRecord.builder) :
                  LastRecord.builder[i].pipeline \in {"draw_matter", "query_matter"} =>
                      LastRecord.builder[i].in = 0
    /\ ca_pipeline # NoPipeline =>
        /\ ca_pipeline.self.matter_in = 0
        /\ ca_pipeline.self.matter_out = 1
        /\ MovementPasses(ca_pipeline.builder) % 2 = 0

\* a step of one substep has swapped the buffers after its fall pass and back
\* after its slide pass
C37_Witness ==
    /\ ca_pipeline = NoPipeline
    /\ trace # <<>>
    /\ LastRecord.op = "step"
    /\ LastRecord.args = <<1, FALSE>>
    /\ LastRecord.builder[1].in = 0
    /\ LastRecord.builder[1].out = 1
    /\ LastRecord.builder[2].in = 1
    /\ LastRecord.builder[2].out = 0
    /\ matter_in = 0

\* C38 (grey scale sum): for the colour grey_scale_u32 was applied to, the
\* three truncated products sum to at most 255, and the result has that sum in
\* its r, g and b channels and 255 in its low byte; and for every value of a
\* channel each product is at most the product for 255, the three of which sum
\* to at most 255, so the same holds for every 32-bit colour.
C38_GreyScaleNoOverflow ==
    /\ codec.phase = "grey" =>
        LET ch == grey_channels(codec.color)
            y == ch[1] + ch[2] + ch[3]
        IN  /\ y <= 255
            /\ u32_rgba_to_u8_rgba(codec.value) = <<y, y, y, 255>>
    /\ LET white == grey_channels(u8_rgba_to_u32_rgba(255, 255, 255, 255))
       IN  /\ white[1] + white[2] + white[3] <= 255
           /\ \A c \in 0 .. 255 :
                LET ch == grey_channels(u8_rgba_to_u32_rgba(c, c, c, 0))
                IN  ch[1] <= white[1] /\ ch[2] <= white[2] /\ ch[3] <= white[3]

\* grey_scale_u32 has been applied to white, the colour with the largest sum
C38_Witness ==
    /\ codec.phase = "grey"
    /\ codec.color = u8_rgba_to_u32_rgba(255, 255, 255, 255)
    /\ u32_rgba_to_u8_rgba(codec.value) = <<254, 254, 254, 255>>

====
